---- MODULE Spec2Model ----
(***************************************************************************)
(* A model of libsass' source-map builder (source_map.cpp) and of the      *)
(* container mixins of the AST (ast.hpp: Vectorized, Hashed, Block, Map).  *)
(***************************************************************************)
EXTENDS Integers, Sequences, FiniteSets, TLC

VARIABLES
  mappings,          \* SourceMap::mappings, a vector of Mapping
  current_position,  \* SourceMap::current_position
  source_index,      \* SourceMap::source_index
  last,              \* the last call on the source map: its arguments, the
                     \* state it was made in and what it returned or threw
  calls,             \* how many calls have changed the object under test
  maps,              \* two Map values: the Hashed mixin's fields and flags
  block,             \* a Block: its statements and its two flags
  subject            \* the AST object the other specifications work on: an
                     \* expression tree, a Parameters list, or the arguments
                     \* a function of the AST is called with

smvars == <<mappings, current_position, source_index, last>>

astvars == <<maps, block, subject>>

vars == <<mappings, current_position, source_index, last, calls, maps, block,
         subject>>

----------------------------------------------------------------------------
(* Bounds of the model *)

MaxCalls == 4   \* calls that change the object under test, per behaviour
BigCol == 17    \* a source column whose delta takes two VLQ digits
MaxNodes == 3   \* nodes in a collection handed to naiveTrim

----------------------------------------------------------------------------
(* Positions, offsets, mappings (position.hpp, mapping.hpp) *)

Pos(f, l, c) == [file |-> f, line |-> l, column |-> c]

Off(l, c) == [line |-> l, column |-> c]

Mapping(original, generated) ==
  [original_position |-> original, generated_position |-> generated]

\* Position + Offset: the position reached after emitting a text of that
\* extent; a text with a line break restarts the column.
PositionPlus(p, off) ==
  Pos(p.file, p.line + off.line,
      IF off.line > 0 THEN off.column ELSE p.column + off.column)

\* Offset(const Position&): the line and column of a position
OffsetOf(p) == Off(p.line, p.column)

\* the start position of a parser state
PStatePos(ps) == Pos(ps.file, ps.line, ps.column)

----------------------------------------------------------------------------
(* The inputs the emitter hands to the source map *)

\* the extents of the texts the emitter appends
Offsets == {Off(0, 1), Off(1, 0)}

\* AST nodes, by their parser state: where they start and how far they extend
NodeA == [file |-> 0, line |-> 0, column |-> 0, offset |-> Off(0, 1)]

NodeB == [file |-> 1, line |-> 1, column |-> BigCol, offset |-> Off(1, 0)]

Nodes == {NodeA, NodeB}

\* OutputBuffer: a text (here its extent) and the source map built for it
OutBuf(b, cp, ms) ==
  [buffer |-> b, smap |-> [mappings |-> ms, current_position |-> cp]]

OutputBuffers ==
  { \* an empty buffer
    OutBuf(Off(0, 0), Pos(0, 0, 0), <<>>),
    \* a text without mappings
    OutBuf(Off(1, 0), Pos(0, 1, 0), <<>>),
    \* one line of text, mapped at its start
    OutBuf(Off(0, 1), Pos(0, 0, 1), <<Mapping(PStatePos(NodeA), Pos(0, 0, 0))>>),
    \* two lines of text, mapped on both
    OutBuf(Off(1, 1), Pos(0, 1, 1),
           <<Mapping(PStatePos(NodeB), Pos(0, 0, 0)),
             Mapping(PStatePos(NodeA), Pos(0, 1, 0))>>),
    \* a mapping below the last line of the buffer's source map
    OutBuf(Off(0, 1), Pos(0, 0, 1),
           <<Mapping(PStatePos(NodeA), Pos(0, 0, 0)),
             Mapping(PStatePos(NodeA), Pos(0, 1, 0))>>),
    \* a mapping right of the last column of the buffer's source map
    OutBuf(Off(0, 1), Pos(0, 0, 0), <<Mapping(PStatePos(NodeA), Pos(0, 0, 1))>>),
    \* a text shorter than its source map
    OutBuf(Off(0, 0), Pos(0, 1, 0), <<Mapping(PStatePos(NodeB), Pos(0, 1, 0))>>) }

----------------------------------------------------------------------------
(* Base64 VLQ (base64vlq.hpp): five data bits per digit, least significant *)
(* group first, the sixth bit says that more digits follow, the sign is    *)
(* the lowest bit of the first group.                                      *)

B64 ==
  << "A","B","C","D","E","F","G","H","I","J","K","L","M","N","O","P",
     "Q","R","S","T","U","V","W","X","Y","Z","a","b","c","d","e","f",
     "g","h","i","j","k","l","m","n","o","p","q","r","s","t","u","v",
     "w","x","y","z","0","1","2","3","4","5","6","7","8","9","+","/" >>

base64_encode(digit) == B64[digit + 1]

base64_decode(ch) == (CHOOSE i \in 1..64 : B64[i] = ch) - 1

to_vlq_signed(number) == IF number < 0 THEN ((-number) * 2) + 1 ELSE number * 2

RECURSIVE vlq_digits(_)
vlq_digits(vlq) ==
  LET rest == vlq \div 32
      digit == (vlq % 32) + (IF rest > 0 THEN 32 ELSE 0)
  IN  <<base64_encode(digit)>> \o (IF rest > 0 THEN vlq_digits(rest) ELSE <<>>)

\* Base64VLQ::encode
encode(number) == vlq_digits(to_vlq_signed(number))

----------------------------------------------------------------------------
(* SourceMap::serialize_mappings, source_map.cpp:72-113 *)

SerInit ==
  [result |-> <<>>,
   previous_generated_line |-> 0, previous_generated_column |-> 0,
   previous_original_line |-> 0, previous_original_column |-> 0,
   previous_original_file |-> 0]

RECURSIVE Repeat(_, _)
Repeat(n, ch) == IF n <= 0 THEN <<>> ELSE <<ch>> \o Repeat(n - 1, ch)

\* SerSeparator without the reset of line 88
SerSeparatorKeepsColumn(acc, m, i) ==
  LET generated_line == m.generated_position.line
  IN  IF generated_line > acc.previous_generated_line
        THEN [sep |-> Repeat(generated_line - acc.previous_generated_line, ";"),
              line |-> generated_line, column |-> acc.previous_generated_column]
      ELSE [sep |-> IF i > 1 THEN <<",">> ELSE <<>>,
            line |-> acc.previous_generated_line,
            column |-> acc.previous_generated_column]

\* SerSeparator with the ',' of line 95 written on a new line too
SerSeparatorCommaFirst(acc, m, i) ==
  LET generated_line == m.generated_position.line
      comma == IF i > 1 THEN <<",">> ELSE <<>>
  IN  IF generated_line > acc.previous_generated_line
        THEN [sep |-> Repeat(generated_line - acc.previous_generated_line, ";") \o comma,
              line |-> generated_line, column |-> 0]
      ELSE [sep |-> comma, line |-> acc.previous_generated_line,
            column |-> IF generated_line # acc.previous_generated_line
                         THEN 0 ELSE acc.previous_generated_column]

\* what the loop body puts between the entries, and the counters it resets
SerSeparator(acc, m, i) ==
  LET generated_line == m.generated_position.line
  IN  IF generated_line # acc.previous_generated_line
      THEN IF generated_line > acc.previous_generated_line
           THEN [sep |-> Repeat(generated_line - acc.previous_generated_line, ";"),
                 line |-> generated_line, column |-> 0]
           ELSE [sep |-> <<>>, line |-> acc.previous_generated_line, column |-> 0]
      ELSE IF i > 1
           THEN [sep |-> <<",">>, line |-> acc.previous_generated_line,
                 column |-> acc.previous_generated_column]
           ELSE [sep |-> <<>>, line |-> acc.previous_generated_line,
                 column |-> acc.previous_generated_column]

\* SerDeltas with the original column taken against the generated column
SerDeltasMixedColumns(acc, m, column) ==
  << m.generated_position.column - column,
     m.original_position.file - acc.previous_original_file,
     m.original_position.line - acc.previous_original_line,
     m.original_position.column - column >>

\* the four deltas of one entry, in the order they are written
SerDeltas(acc, m, column) ==
  << m.generated_position.column - column,
     m.original_position.file - acc.previous_original_file,
     m.original_position.line - acc.previous_original_line,
     m.original_position.column - acc.previous_original_column >>

\* one iteration of the loop, for the i-th mapping (counted from 1)
SerStep(acc, m, i) ==
  LET s == SerSeparator(acc, m, i)
      d == SerDeltas(acc, m, s.column)
  IN  [result |-> acc.result \o s.sep
                   \o encode(d[1]) \o encode(d[2]) \o encode(d[3]) \o encode(d[4]),
       previous_generated_line |-> s.line,
       previous_generated_column |-> m.generated_position.column,
       previous_original_line |-> m.original_position.line,
       previous_original_column |-> m.original_position.column,
       previous_original_file |-> m.original_position.file]

RECURSIVE SerLoop(_, _, _)
SerLoop(acc, ms, i) ==
  IF i > Len(ms) THEN acc ELSE SerLoop(SerStep(acc, ms[i], i), ms, i + 1)

serialize_mappings(ms) == SerLoop(SerInit, ms, 1).result

\* the loop's counters when it reaches the i-th mapping
SerBefore(ms, i) == SerLoop(SerInit, SubSeq(ms, 1, i - 1), 1)

----------------------------------------------------------------------------
(* SourceMap::prepend, append, add_open_mapping, add_close_mapping,        *)
(* source_map.cpp:115-170                                                  *)

\* ShiftMapping without the test of line 144
ShiftMappingEveryLine(m, offset) ==
  [m EXCEPT !.generated_position =
     Pos(m.generated_position.file,
         m.generated_position.line + offset.line,
         m.generated_position.column + offset.column)]

\* the loop body of prepend(const Offset&), lines 143-148
ShiftMapping(m, offset) ==
  [m EXCEPT !.generated_position =
     Pos(m.generated_position.file,
         m.generated_position.line + offset.line,
         IF m.generated_position.line = 0
           THEN m.generated_position.column + offset.column
           ELSE m.generated_position.column)]

\* prepend(const Offset&) on the mapping vector, lines 141-150
PrependOffsetMappings(ms, offset) ==
  IF offset.line # 0 \/ offset.column # 0
    THEN [i \in 1..Len(ms) |-> ShiftMapping(ms[i], offset)]
    ELSE ms

\* prepend(const Offset&) on current_position, lines 151-154
PrependOffsetPosition(cp, offset) ==
  Pos(cp.file, cp.line + offset.line,
      IF cp.line = 0 THEN cp.column + offset.column ELSE cp.column)

\* PrependError without the column test of lines 122-126
PrependErrorLineOnly(m, size) ==
  IF m.generated_position.line > size.line
    THEN "prepend sourcemap has illegal line"
    ELSE "none"

\* the check prepend(const OutputBuffer&) makes of one incoming mapping
\* against size = out.smap.current_position, lines 119-126
PrependError(m, size) ==
  IF m.generated_position.line > size.line
    THEN "prepend sourcemap has illegal line"
  ELSE IF m.generated_position.line = size.line
          /\ m.generated_position.column > size.column
    THEN "prepend sourcemap has illegal column"
  ELSE "none"

\* the error the loop of lines 118-127 throws: that of the first mapping
\* it rejects, "none" when it accepts them all
PrependCheck(out) ==
  LET size == OffsetOf(out.smap.current_position)
      bad  == {i \in 1..Len(out.smap.mappings) :
                 PrependError(out.smap.mappings[i], size) # "none"}
  IN  IF bad = {} THEN "none"
      ELSE PrependError(out.smap.mappings[CHOOSE i \in bad : \A j \in bad : i <= j], size)

\* PrependBufferMappings with the incoming mappings put behind the old ones
PrependBufferMappingsAtEnd(ms, out) ==
  PrependOffsetMappings(ms, out.buffer) \o out.smap.mappings

\* VECTOR_UNSHIFT(mappings, out.smap.mappings) after prepend(Offset(out.buffer))
PrependBufferMappings(ms, out) ==
  out.smap.mappings \o PrependOffsetMappings(ms, out.buffer)

\* the receiver after a throw of lines 120 or 124, had line 130 come
\* before the loop of lines 118-127
PrependThrownAfterShift(ms, cp, out) ==
  [mappings |-> PrependOffsetMappings(ms, out.buffer),
   current_position |-> PrependOffsetPosition(cp, out.buffer)]

\* the receiver after a throw of lines 120 or 124: the loop of lines
\* 118-127 ends before line 130 touches anything
PrependThrown(ms, cp, out) == [mappings |-> ms, current_position |-> cp]

\* OpenMapping with the original position add_close_mapping takes
OpenMappingAtEnd(node, cp) == Mapping(PositionPlus(PStatePos(node), node.offset), cp)

\* add_open_mapping, line 164
OpenMapping(node, cp) == Mapping(PStatePos(node), cp)

\* add_close_mapping, line 169
CloseMapping(node, cp) == Mapping(PositionPlus(PStatePos(node), node.offset), cp)

NoCall == [op |-> "none"]

\* no other AST object has been constructed
NoSubject == [kind |-> "none"]

\* no Block has been constructed
NoBlock == [constructed |-> FALSE]

Init ==
  /\ mappings = <<>>
  /\ current_position = Pos(0, 0, 0)
  /\ source_index = <<>>
  /\ last = NoCall
  /\ calls = 0
  /\ maps = <<>>
  /\ block = NoBlock
  /\ subject = NoSubject

\* void SourceMap::add_open_mapping(AST_Node* node)
AddOpenMapping ==
  \E node \in Nodes :
    /\ calls < MaxCalls
    /\ calls' = calls + 1
    /\ mappings' = Append(mappings, OpenMapping(node, current_position))
    /\ last' = [op |-> "open", node |-> node, pre_mappings |-> mappings,
                pre_position |-> current_position]
    /\ UNCHANGED <<current_position, source_index>>
    /\ UNCHANGED astvars

\* void SourceMap::add_close_mapping(AST_Node* node)
AddCloseMapping ==
  \E node \in Nodes :
    /\ calls < MaxCalls
    /\ calls' = calls + 1
    /\ mappings' = Append(mappings, CloseMapping(node, current_position))
    /\ last' = [op |-> "close", node |-> node, pre_mappings |-> mappings,
                pre_position |-> current_position]
    /\ UNCHANGED <<current_position, source_index>>
    /\ UNCHANGED astvars

\* void SourceMap::append(const Offset& offset)
AppendOffset ==
  \E offset \in Offsets :
    /\ calls < MaxCalls
    /\ calls' = calls + 1
    /\ current_position' = PositionPlus(current_position, offset)
    /\ last' = [op |-> "append", offset |-> offset, pre_mappings |-> mappings,
                pre_position |-> current_position]
    /\ UNCHANGED <<mappings, source_index>>
    /\ UNCHANGED astvars

\* void SourceMap::prepend(const OutputBuffer& out), when it returns
PrependBuffer ==
  \E out \in OutputBuffers :
    /\ calls < MaxCalls
    /\ PrependCheck(out) = "none"
    /\ calls' = calls + 1
    /\ mappings' = PrependBufferMappings(mappings, out)
    /\ current_position' = PrependOffsetPosition(current_position, out.buffer)
    /\ last' = [op |-> "prepend", out |-> out, error |-> "none",
                pre_mappings |-> mappings, pre_position |-> current_position]
    /\ UNCHANGED source_index
    /\ UNCHANGED astvars

\* void SourceMap::prepend(const OutputBuffer& out), when it throws
PrependBufferThrows ==
  \E out \in OutputBuffers :
    /\ calls < MaxCalls
    /\ PrependCheck(out) # "none"
    /\ calls' = calls + 1
    /\ last' = [op |-> "prepend", out |-> out, error |-> PrependCheck(out),
                pre_mappings |-> mappings, pre_position |-> current_position]
    /\ mappings' = PrependThrown(mappings, current_position, out).mappings
    /\ current_position' =
         PrependThrown(mappings, current_position, out).current_position
    /\ UNCHANGED source_index
    /\ UNCHANGED astvars

\* string SourceMap::serialize_mappings()
SerializeMappings ==
  /\ last' = [op |-> "serialize_mappings", result |-> serialize_mappings(mappings),
              pre_mappings |-> mappings, pre_position |-> current_position]
  /\ UNCHANGED <<mappings, current_position, source_index, calls>>
  /\ UNCHANGED astvars

Next ==
  \/ AddOpenMapping
  \/ AddCloseMapping
  \/ AppendOffset
  \/ PrependBuffer
  \/ PrependBufferThrows
  \/ SerializeMappings

Spec == Init /\ [][Next]_vars

----------------------------------------------------------------------------
(* SourceMap::generate_source_map, source_map.cpp:18-70 *)

\* Context: the include paths and the source texts, by file index from 0
include_links == <<"a.scss", "b.scss">>

sources == <<"a{b:c}", "d{e:f}">>

Contexts ==
  {[source_map_contents |-> c, source_map_root |-> r,
    include_links |-> include_links, sources |-> sources] :
     c \in BOOLEAN, r \in {"", "/root"}}

\* json_append_member: a member is added at the end of the object
Member(key, value) == <<[key |-> key, value |-> value]>>

\* the "sources" array, lines 38-44
JsonIncludes(ctx, index) ==
  [i \in 1..Len(index) |-> ctx.include_links[index[i] + 1]]

\* the "sourcesContent" array, lines 46-54
JsonContents(ctx, index) ==
  IF ctx.source_map_contents
    THEN [i \in 1..Len(index) |-> ctx.sources[index[i] + 1]]
    ELSE <<>>

\* generate_source_map with "names" appended before "mappings"
generate_source_map_names_first(ctx, name, index, ms) ==
  Member("version", 3)
    \o (IF ctx.source_map_root # "" THEN Member("sourceRoot", ctx.source_map_root)
        ELSE <<>>)
    \o Member("file", name)
    \o Member("sources", JsonIncludes(ctx, index))
    \o Member("sourcesContent", JsonContents(ctx, index))
    \o Member("names", <<>>)
    \o Member("mappings", serialize_mappings(ms))

\* the JSON object generate_source_map builds, member by member
generate_source_map(ctx, name, index, ms) ==
  Member("version", 3)
    \o (IF ctx.source_map_root # "" THEN Member("sourceRoot", ctx.source_map_root)
        ELSE <<>>)
    \o Member("file", name)
    \o Member("sources", JsonIncludes(ctx, index))
    \o Member("sourcesContent", JsonContents(ctx, index))
    \o Member("mappings", serialize_mappings(ms))
    \o Member("names", <<>>)

\* SourceMap::file of a source map made by the default constructor
smap_file == "stdin"

\* the emitter records the index of a source file it writes output for
AddSourceIndex ==
  \E idx \in 0..Len(include_links) - 1 :
    /\ calls < MaxCalls
    /\ calls' = calls + 1
    /\ source_index' = Append(source_index, idx)
    /\ last' = [op |-> "add_source_index", idx |-> idx, pre_mappings |-> mappings,
                pre_position |-> current_position]
    /\ UNCHANGED <<mappings, current_position>>
    /\ UNCHANGED astvars

\* string SourceMap::generate_source_map(Context &ctx)
GenerateSourceMap ==
  \E ctx \in Contexts :
    /\ last' = [op |-> "generate_source_map", ctx |-> ctx,
                result |-> generate_source_map(ctx, smap_file, source_index, mappings),
                pre_mappings |-> mappings, pre_position |-> current_position]
    /\ UNCHANGED <<mappings, current_position, source_index, calls>>
    /\ UNCHANGED astvars

NextJson ==
  \/ AddSourceIndex
  \/ AddOpenMapping
  \/ AppendOffset
  \/ GenerateSourceMap

\* the emitter writing one stylesheet and asking for its source map
SpecJson == Init /\ [][NextJson]_vars

----------------------------------------------------------------------------
(* Reading a mappings string back, as a consumer of the V3 format does *)

\* the numbers of a run of VLQ digits
RECURSIVE vlq_decode(_, _, _, _)
vlq_decode(chars, i, vlq, weight) ==
  IF i > Len(chars) THEN <<>>
  ELSE LET digit == base64_decode(chars[i])
           sum   == vlq + (digit % 32) * weight
       IN  IF digit >= 32
             THEN vlq_decode(chars, i + 1, sum, weight * 32)
             ELSE <<IF sum % 2 = 1 THEN -(sum \div 2) ELSE sum \div 2>>
                    \o vlq_decode(chars, i + 1, 0, 1)

\* the pieces of a string between the occurrences of a separator
RECURSIVE Split(_, _, _, _)
Split(chars, sepr, i, piece) ==
  IF i > Len(chars) THEN <<piece>>
  ELSE IF chars[i] = sepr
         THEN <<piece>> \o Split(chars, sepr, i + 1, <<>>)
         ELSE Split(chars, sepr, i + 1, Append(piece, chars[i]))

SplitOn(chars, sepr) == Split(chars, sepr, 1, <<>>)

\* the entries of one line: the running column starts at 0, the running
\* source position carries over from st
RECURSIVE DecodeSegments(_, _, _, _)
DecodeSegments(segments, k, line, st) ==
  IF k > Len(segments) THEN st
  ELSE LET fields == vlq_decode(segments[k], 1, 0, 1)
       IN  IF Len(fields) < 4 THEN DecodeSegments(segments, k + 1, line, st)
           ELSE LET column == st.column + fields[1]
                    file   == st.file + fields[2]
                    oline  == st.oline + fields[3]
                    ocol   == st.ocol + fields[4]
                IN  DecodeSegments(segments, k + 1, line,
                      [column |-> column, file |-> file, oline |-> oline, ocol |-> ocol,
                       out |-> Append(st.out, <<line, column, file, oline, ocol>>)])

RECURSIVE DecodeLines(_, _, _)
DecodeLines(lines, l, st) ==
  IF l > Len(lines) THEN st.out
  ELSE DecodeLines(lines, l + 1,
         DecodeSegments(SplitOn(lines[l], ","), 1, l - 1, [st EXCEPT !.column = 0]))

\* the (generated line, generated column, source, original line, original
\* column) tuples a mappings string stands for
DecodeMappings(chars) ==
  DecodeLines(SplitOn(chars, ";"), 1,
              [column |-> 0, file |-> 0, oline |-> 0, ocol |-> 0, out |-> <<>>])

MappingTuples(ms) ==
  [i \in 1..Len(ms) |->
     << ms[i].generated_position.line, ms[i].generated_position.column,
        ms[i].original_position.file, ms[i].original_position.line,
        ms[i].original_position.column >>]

CountOf(chars, ch) == Cardinality({i \in 1..Len(chars) : chars[i] = ch})

\* the mapping vector never steps back to an earlier generated line
NonDecreasingLines(ms) ==
  \A i \in 1..Len(ms) - 1 :
    ms[i].generated_position.line <= ms[i + 1].generated_position.line

Serialized == last.op = "serialize_mappings"

----------------------------------------------------------------------------
(* C1 *)

\* C1 as stated: whatever sequence of open, close, append and prepend calls
\* built the mapping vector, decoding the string serialize_mappings returns
\* gives back the vector's (generated line, generated column, source,
\* original line, original column) tuples, in order.
C1_RoundTripOfEveryVector ==
  Serialized => DecodeMappings(last.result) = MappingTuples(mappings)

\* C1, amended: the round trip holds for every mapping vector that never steps
\* back to an earlier generated line.
C1_RoundTrip ==
  (Serialized /\ NonDecreasingLines(mappings))
    => DecodeMappings(last.result) = MappingTuples(mappings)

\* a serialized vector with a line break in it, a source column that takes
\* two VLQ digits and a negative delta
C1_Witness ==
  /\ Serialized
  /\ NonDecreasingLines(mappings)
  /\ \E i \in 2..Len(mappings) :
       /\ mappings[i].generated_position.line > mappings[i - 1].generated_position.line
       /\ mappings[i - 1].original_position.column >= 16
       /\ mappings[i].original_position.column < mappings[i - 1].original_position.column

----------------------------------------------------------------------------
(* C2 *)

MappingsOnLine(ms, l) == {i \in 1..Len(ms) : ms[i].generated_position.line = l}

\* the string has one ';' per generated line up to that of the last mapping,
\* and between two ';' one entry of four numbers per mapping of that line,
\* with a ',' between neighbours and none in front
GroupedByLine(chars, ms) ==
  LET lines == SplitOn(chars, ";")
  IN  /\ Len(ms) > 0 => CountOf(chars, ";") = ms[Len(ms)].generated_position.line
      /\ Len(ms) = 0 => chars = <<>>
      /\ \A l \in 1..Len(lines) :
           LET n == Cardinality(MappingsOnLine(ms, l - 1))
               segments == SplitOn(lines[l], ",")
           IN  IF n = 0 THEN lines[l] = <<>>
               ELSE /\ Len(segments) = n
                    /\ CountOf(lines[l], ",") = n - 1
                    /\ \A k \in 1..n : Len(vlq_decode(segments[k], 1, 0, 1)) = 4
      /\ (\A i \in 1..Len(ms) : ms[i].generated_position.line = 0)
           => /\ CountOf(chars, ";") = 0
              /\ Len(ms) > 0 => CountOf(chars, ",") = Len(ms) - 1

\* C2 as stated: serialize_mappings groups the entries by generated line: as
\* many ';' as the generated line of the last mapping, one ',' between two
\* neighbouring entries of a line and none before its first entry.
C2_GroupedForEveryVector == Serialized => GroupedByLine(last.result, mappings)

\* C2, amended: the grouping holds for every mapping vector that never steps
\* back to an earlier generated line.
C2_Grouped ==
  (Serialized /\ NonDecreasingLines(mappings)) => GroupedByLine(last.result, mappings)

\* a serialized vector with two entries on one line and an entry on a later one
C2_Witness ==
  /\ Serialized
  /\ NonDecreasingLines(mappings)
  /\ Len(mappings) >= 3
  /\ mappings[1].generated_position.line = mappings[2].generated_position.line
  /\ mappings[Len(mappings)].generated_position.line > 0

----------------------------------------------------------------------------
(* C3 *)

IsDigitChar(ch) == ch # ";" /\ ch # ","

\* every number written, in the order written
AllFields(chars) == vlq_decode(SelectSeq(chars, IsDigitChar), 1, 0, 1)

RECURSIVE MaxLineBefore(_, _)
MaxLineBefore(ms, i) ==
  IF i <= 1 THEN 0
  ELSE LET m == MaxLineBefore(ms, i - 1)
           l == ms[i - 1].generated_position.line
       IN  IF l > m THEN l ELSE m

PreviousOriginal(ms, i) == IF i = 1 THEN Pos(0, 0, 0) ELSE ms[i - 1].original_position

\* C3: the generated-column delta of the first entry of each new generated
\* line is taken against 0; the source, original-line and original-column
\* deltas are always taken against the previous entry, line break or not.
C3_DeltaBases ==
  Serialized =>
    LET f == AllFields(last.result)
    IN  /\ Len(f) = 4 * Len(mappings)
        /\ \A i \in 1..Len(mappings) :
             LET m == mappings[i]
                 p == PreviousOriginal(mappings, i)
             IN  /\ m.generated_position.line > MaxLineBefore(mappings, i)
                      => f[4 * i - 3] = m.generated_position.column
                 /\ f[4 * i - 2] = m.original_position.file - p.file
                 /\ f[4 * i - 1] = m.original_position.line - p.line
                 /\ f[4 * i] = m.original_position.column - p.column

\* a serialized vector whose generated line advances after an entry with a
\* column other than 0 and a source position other than the origin
C3_Witness ==
  /\ Serialized
  /\ \E i \in 2..Len(mappings) :
       /\ mappings[i].generated_position.line > MaxLineBefore(mappings, i)
       /\ mappings[i - 1].generated_position.column > 0
       /\ mappings[i - 1].original_position.file > 0
       /\ mappings[i - 1].original_position.line > 0
       /\ mappings[i - 1].original_position.column > 0

----------------------------------------------------------------------------
(* C4 *)

Prepended == last.op = "prepend" /\ last.error = "none"

PrependThrew == last.op = "prepend" /\ last.error # "none"

\* an existing mapping as the claim says it is moved
MovedBy(m, offset) ==
  Mapping(m.original_position,
          Pos(m.generated_position.file,
              m.generated_position.line + offset.line,
              m.generated_position.column
                + (IF m.generated_position.line = 0 THEN offset.column ELSE 0)))

\* C4: after a successful prepend(buffer) the mapping vector is the buffer's
\* mappings, unchanged and in order, followed by the mappings there were, in
\* their order, each moved down by the buffer's line offset and, if it was on
\* generated line 0, right by the buffer's column offset, with its original
\* position untouched.
C4_PrependResult ==
  Prepended =>
    mappings = last.out.smap.mappings
                 \o [i \in 1..Len(last.pre_mappings) |->
                       MovedBy(last.pre_mappings[i], last.out.buffer)]

\* a buffer of two mappings and two lines prepended to a vector that has a
\* mapping on generated line 0 and one further down
C4_Witness ==
  /\ Prepended
  /\ Len(last.out.smap.mappings) >= 2
  /\ last.out.buffer.line > 0
  /\ last.out.buffer.column > 0
  /\ \E i \in 1..Len(last.pre_mappings) :
       last.pre_mappings[i].generated_position.line = 0
  /\ \E i \in 1..Len(last.pre_mappings) :
       last.pre_mappings[i].generated_position.line > 0

----------------------------------------------------------------------------
(* C5 *)

\* position p lies beyond the extent size
Beyond(p, size) ==
  p.line > size.line \/ (p.line = size.line /\ p.column > size.column)

\* C5 as stated: prepend(buffer) fails when a mapping of the incoming buffer
\* lies beyond the current size of the source map it is prepended to.
C5_FailsBeyondReceiver ==
  (/\ last.op = "prepend"
   /\ \E i \in 1..Len(last.out.smap.mappings) :
        Beyond(last.out.smap.mappings[i].generated_position, last.pre_position))
    => last.error # "none"

\* C5, amended: prepend(buffer) fails exactly when a mapping of the incoming
\* buffer lies beyond the current position of the buffer's own source map
\* (a later line, or the same line and a later column).
C5_FailsBeyondOwnSize ==
  last.op = "prepend" =>
    (last.error # "none"
       <=> \E i \in 1..Len(last.out.smap.mappings) :
             Beyond(last.out.smap.mappings[i].generated_position,
                    last.out.smap.current_position))

\* a prepend that threw for a column, on the line the buffer's source map ends
C5_Witness ==
  /\ PrependThrew
  /\ last.error = "prepend sourcemap has illegal column"
  /\ mappings = last.pre_mappings

----------------------------------------------------------------------------
(* C6 *)

\* C6: open(node) appends one mapping, from the node's start to the
\* current_position of the call; close(node) appends one mapping, from the
\* node's start plus its offset; neither changes current_position or an
\* earlier mapping; append(offset) changes current_position alone.
C6_OpenCloseAppendFrame ==
  /\ last.op = "open" =>
       /\ mappings = Append(last.pre_mappings,
                            Mapping(Pos(last.node.file, last.node.line, last.node.column),
                                    last.pre_position))
       /\ current_position = last.pre_position
  /\ last.op = "close" =>
       /\ mappings = Append(last.pre_mappings,
                            Mapping(PositionPlus(Pos(last.node.file, last.node.line,
                                                     last.node.column),
                                                 last.node.offset),
                                    last.pre_position))
       /\ current_position = last.pre_position
  /\ last.op = "append" =>
       mappings = last.pre_mappings

\* a close of a node that ends on a later line, after an open and an advance
C6_Witness ==
  /\ last.op = "close"
  /\ last.node.offset.line > 0
  /\ Len(last.pre_mappings) > 0
  /\ last.pre_position # Pos(0, 0, 0)

----------------------------------------------------------------------------
(* C7 *)

Generated == last.op = "generate_source_map"

Keys(obj) == [i \in 1..Len(obj) |-> obj[i].key]

ValueOf(obj, key) == obj[CHOOSE i \in 1..Len(obj) : obj[i].key = key].value

\* C7: the source-map JSON object has its keys in the order version (3),
\* sourceRoot (only when a non-empty root is configured), file, sources,
\* sourcesContent, mappings, names; sourcesContent is empty or as long as
\* sources, and names is an empty array.
C7_JsonKeys ==
  Generated =>
    /\ Keys(last.result) =
         <<"version">>
           \o (IF last.ctx.source_map_root # "" THEN <<"sourceRoot">> ELSE <<>>)
           \o <<"file", "sources", "sourcesContent", "mappings", "names">>
    /\ ValueOf(last.result, "version") = 3
    /\ Len(ValueOf(last.result, "sources")) = Len(source_index)
    /\ Len(ValueOf(last.result, "sourcesContent"))
         \in {0, Len(ValueOf(last.result, "sources"))}
    /\ ValueOf(last.result, "names") = <<>>

\* a source map with a root, two sources, their contents and a mapping
C7_Witness ==
  /\ Generated
  /\ last.ctx.source_map_root # ""
  /\ Len(ValueOf(last.result, "sources")) = 2
  /\ Len(ValueOf(last.result, "sourcesContent")) = 2
  /\ Len(ValueOf(last.result, "mappings")) > 0

----------------------------------------------------------------------------
(* size_t arithmetic (ast.hpp, hash_combine): a size_t is the sequence of   *)
(* its bits, least significant first                                        *)

SizeBits == 64

RECURSIVE NatBits(_, _)
NatBits(n, k) ==
  IF k = 0 THEN <<>> ELSE <<n % 2>> \o NatBits(n \div 2, k - 1)

SizeT(n) == NatBits(n, SizeBits)

Zero == SizeT(0)

RECURSIVE HexBits(_)
HexBits(digits) ==
  IF digits = <<>> THEN <<>>
  ELSE NatBits(Head(digits), 4) \o HexBits(Tail(digits))

\* 0x9e3779b9: its hexadecimal digits, least significant first
GoldenRatio ==
  LET low == HexBits(<<9, 11, 9, 7, 7, 3, 14, 9>>)
  IN low \o NatBits(0, SizeBits - Len(low))

RECURSIVE XorFrom(_, _, _)
XorFrom(a, b, i) ==
  IF i > SizeBits THEN <<>>
  ELSE <<(a[i] + b[i]) % 2>> \o XorFrom(a, b, i + 1)

\* a ^ b
BitXor(a, b) == XorFrom(a, b, 1)

\* a << k
ShiftLeft(a, k) == SubSeq(NatBits(0, k) \o a, 1, SizeBits)

\* a >> k
ShiftRight(a, k) == SubSeq(a, k + 1, SizeBits) \o NatBits(0, k)

RECURSIVE AddCarry(_, _, _, _)
AddCarry(a, b, i, carry) ==
  IF i > SizeBits THEN <<>>
  ELSE LET s == a[i] + b[i] + carry
       IN <<s % 2>> \o AddCarry(a, b, i + 1, s \div 2)

\* a + b, modulo 2^SizeBits
Plus(a, b) == AddCarry(a, b, 1, 0)

\* seed ^= std::hash<size_t>()(val) + 0x9e3779b9 + (seed<<6) + (seed>>2);
\* the hash of a size_t is the size_t (libstdc++, libc++)
hash_combine(seed, val) ==
  BitXor(seed, Plus(Plus(Plus(val, GoldenRatio), ShiftLeft(seed, 6)),
                    ShiftRight(seed, 2)))

----------------------------------------------------------------------------
(* Expressions used as map keys and values (ast.hpp: Boolean, Number)      *)

Boolean(b) == [type |-> "Boolean", value |-> IF b THEN 1 ELSE 0, unit |-> ""]

Number(v, u) == [type |-> "Number", value |-> v, unit |-> u]

\* the null pointer
NullExpression == [type |-> "null", value |-> 0, unit |-> ""]

Booleans == {Boolean(TRUE), Boolean(FALSE)}

\* two numbers of the same value in different units
Numbers == {Number(0, "px"), Number(0, "em")}

\* the keys of the one-map specification: no two of different values have
\* the same hash
MapKeys == Numbers \cup {Boolean(TRUE)}

\* std::hash<bool>: the value converted to size_t (libstdc++, libc++)
StdHashBool(v) == SizeT(v)

\* std::hash<double>: zero hashes to zero (libstdc++, libc++); the hash of
\* any other double is the library's byte hash, and the model has no such
\* number
StdHashDouble(v) == CASE v = 0 -> Zero

\* Boolean::hash
Boolean_hash(e) == StdHashBool(e.value)

\* Number::hash: the units take no part
Number_hash(e) == StdHashDouble(e.value)

\* the virtual call s->hash()
Expression_hash(e) ==
  CASE e.type = "Boolean" -> Boolean_hash(e)
    [] e.type = "Number" -> Number_hash(e)

\* operator== of Boolean and Number: same type, same value, same units
StructurallyEqual(a, b) == a = b

\* std::equal_to<Sass::Expression*>
equal_to(lhs, rhs) == Expression_hash(lhs) = Expression_hash(rhs)

----------------------------------------------------------------------------
(* Hashed and Map (ast.hpp)                                                 *)

\* what an uninitialized size_t can hold: zero, or something else
IndeterminateHashes == {Zero, SizeT(1)}

\* Map::Map: Hashed() leaves hash_ uninitialized; is_expanded_ is the
\* constructor's default; inserted records the calls of operator<< so far
NewMap(h) ==
  [elements_ |-> {}, list_ |-> <<>>, hash_ |-> h,
   duplicate_key_ |-> NullExpression, is_expanded |-> FALSE,
   inserted |-> <<>>]

\* Hashed::has
has(m, k) == \E p \in m.elements_ : equal_to(p[1], k)

\* Hashed::at
at(m, k) ==
  IF has(m, k) THEN (CHOOSE p \in m.elements_ : equal_to(p[1], k))[2]
  ELSE NullExpression

\* elements_[k] = v on the unordered_map
Subscript(elements, k, v) ==
  IF \E p \in elements : equal_to(p[1], k)
  THEN {IF equal_to(p[1], k) THEN <<p[1], v>> ELSE p : p \in elements}
  ELSE elements \cup {<<k, v>>}

\* Hashed::operator<<, with Map::adjust_after_pushing
HashedPush(m, k, v) ==
  [elements_ |-> Subscript(m.elements_, k, v),
   list_ |-> IF ~has(m, k) THEN Append(m.list_, k) ELSE m.list_,
   hash_ |-> Zero,
   duplicate_key_ |-> IF has(m, k) /\ m.duplicate_key_ = NullExpression
                      THEN k ELSE m.duplicate_key_,
   is_expanded |-> FALSE,
   inserted |-> Append(m.inserted, <<k, v>>)]

\* Hashed::has_duplicate_key
has_duplicate_key(m) == m.duplicate_key_ # NullExpression

RECURSIVE HashKeys(_, _, _)
HashKeys(m, i, seed) ==
  IF i > Len(m.list_) THEN seed
  ELSE HashKeys(m, i + 1,
         hash_combine(hash_combine(seed, Expression_hash(m.list_[i])),
                      Expression_hash(at(m, m.list_[i]))))

\* Map::hash: what the call returns, which is also what it leaves in hash_
Map_hash(m) == IF m.hash_ = Zero THEN HashKeys(m, 1, m.hash_) ELSE m.hash_

\* Map::operator==: the same set of entries, whatever the insertion order
Map_equals(a, b) ==
  /\ Len(a.list_) = Len(b.list_)
  /\ \A k \in {a.list_[i] : i \in 1..Len(a.list_)} :
       \E j \in 1..Len(b.list_) :
         /\ StructurallyEqual(b.list_[j], k)
         /\ StructurallyEqual(at(b, b.list_[j]), at(a, k))

\* one Map is constructed
InitHashed ==
  /\ mappings = <<>>
  /\ current_position = Pos(0, 0, 0)
  /\ source_index = <<>>
  /\ last = NoCall
  /\ calls = 0
  /\ maps \in [{1} -> {NewMap(h) : h \in IndeterminateHashes}]
  /\ block = NoBlock
  /\ subject = NoSubject

\* two Maps are constructed
InitMapPair ==
  /\ mappings = <<>>
  /\ current_position = Pos(0, 0, 0)
  /\ source_index = <<>>
  /\ last = NoCall
  /\ calls = 0
  /\ maps \in [{1, 2} -> {NewMap(h) : h \in IndeterminateHashes}]
  /\ block = NoBlock
  /\ subject = NoSubject

\* *map << make_pair(key, value), for a key of MapKeys and a Boolean value
MapPush ==
  \E i \in DOMAIN maps, k \in MapKeys, v \in Booleans :
    /\ calls < MaxCalls
    /\ calls' = calls + 1
    /\ maps' = [maps EXCEPT ![i] = HashedPush(maps[i], k, v)]
    /\ UNCHANGED <<smvars, block, subject>>

\* *map << make_pair(key, value), for a Boolean key and a Boolean value
MapPushBoolean ==
  \E i \in DOMAIN maps, k \in Booleans, v \in Booleans :
    /\ calls < MaxCalls
    /\ calls' = calls + 1
    /\ maps' = [maps EXCEPT ![i] = HashedPush(maps[i], k, v)]
    /\ UNCHANGED <<smvars, block, subject>>

\* map->hash()
MapHash ==
  \E i \in DOMAIN maps :
    /\ maps' = [maps EXCEPT ![i].hash_ = Map_hash(maps[i])]
    /\ UNCHANGED <<smvars, calls, block, subject>>

NextHashed == MapPush \/ MapHash

SpecHashed == InitHashed /\ [][NextHashed]_vars

NextMapPair == MapPushBoolean \/ MapHash

SpecMapPair == InitMapPair /\ [][NextMapPair]_vars

----------------------------------------------------------------------------
(* C8: Map insertion                                                        *)

\* the value of the last insertion of key k among the pairs ins
RECURSIVE LastInserted(_, _)
LastInserted(ins, k) ==
  IF ins = <<>> THEN NullExpression
  ELSE IF StructurallyEqual(ins[Len(ins)][1], k) THEN ins[Len(ins)][2]
  ELSE LastInserted(SubSeq(ins, 1, Len(ins) - 1), k)

\* insertion n repeats the key of an earlier insertion
Repeats(ins, n) == \E a \in 1..(n - 1) : StructurallyEqual(ins[a][1], ins[n][1])

\* the keys of ins, each at the place of its first insertion
RECURSIVE FirstInsertions(_, _)
FirstInsertions(ins, n) ==
  IF n > Len(ins) THEN <<>>
  ELSE IF Repeats(ins, n) THEN FirstInsertions(ins, n + 1)
  ELSE <<ins[n][1]>> \o FirstInsertions(ins, n + 1)

\* C8: for a Map built by insertions, looking a key up gives the value of
\* the last insertion of that key, the key list holds every key at the
\* place of its first insertion, and has_duplicate_key() is true iff some
\* key was inserted more than once, the recorded duplicate being the first
\* repeated key.
C8_MapInsertion ==
  \A i \in DOMAIN maps :
    LET m == maps[i]
        ins == m.inserted
        repeated == {n \in 1..Len(ins) : Repeats(ins, n)}
    IN /\ \A n \in 1..Len(ins) : at(m, ins[n][1]) = LastInserted(ins, ins[n][1])
       /\ m.list_ = FirstInsertions(ins, 1)
       /\ has_duplicate_key(m) <=> repeated # {}
       /\ repeated # {} =>
            m.duplicate_key_ = ins[CHOOSE n \in repeated :
                                     \A o \in repeated : n <= o][1]

----------------------------------------------------------------------------
(* C9: hash agrees with equality                                            *)

\* C9: two Maps that hold the same set of entries, inserted in different
\* orders, are equal and so have the same hash().
C9_EqualMapsHashEqual ==
  \A i, j \in DOMAIN maps :
    (/\ Map_equals(maps[i], maps[j])
     /\ maps[i].list_ # maps[j].list_)
    => Map_hash(maps[i]) = Map_hash(maps[j])

----------------------------------------------------------------------------
(* Vectorized<Statement*> and Block (ast.hpp)                               *)

\* the null pointer
NullStatement == "null"

Statements == {"Ruleset", "Media_Block", "Declaration"}

\* the statement vectors given to operator+=
StatementVectors == {<<"Declaration", "Ruleset">>, <<"Media_Block">>}

\* Statement::is_hoistable and its overrides
is_hoistable(s) == s \in {"Ruleset", "Media_Block"}

\* Block::Block: both flags false; Vectorized() leaves hash_ uninitialized
NewBlock(h) ==
  [constructed |-> TRUE, elements_ |-> <<>>, hash_ |-> h,
   has_hoistable |-> FALSE, has_non_hoistable |-> FALSE]

\* Block::adjust_after_pushing
adjust_after_pushing(b, s) ==
  IF is_hoistable(s) THEN [b EXCEPT !.has_hoistable = TRUE]
  ELSE [b EXCEPT !.has_non_hoistable = TRUE]

\* Vectorized::operator<<
VectorizedPush(b, element) ==
  IF element = NullStatement THEN b
  ELSE adjust_after_pushing(
         [b EXCEPT !.hash_ = Zero, !.elements_ = Append(b.elements_, element)],
         element)

\* Vectorized::operator+=
RECURSIVE VectorizedPushAll(_, _, _)
VectorizedPushAll(b, v, i) ==
  IF i > Len(v) THEN b
  ELSE VectorizedPushAll(VectorizedPush(b, v[i]), v, i + 1)

\* Vectorized::unshift
VectorizedUnshift(b, element) ==
  [b EXCEPT !.elements_ = <<element>> \o b.elements_]

\* a Block is constructed
InitBlock ==
  /\ mappings = <<>>
  /\ current_position = Pos(0, 0, 0)
  /\ source_index = <<>>
  /\ last = NoCall
  /\ calls = 0
  /\ maps = <<>>
  /\ block \in {NewBlock(h) : h \in IndeterminateHashes}
  /\ subject = NoSubject

\* *block << statement, the statement possibly null
BlockPush ==
  \E s \in Statements \cup {NullStatement} :
    /\ calls < MaxCalls
    /\ calls' = calls + 1
    /\ block' = VectorizedPush(block, s)
    /\ last' = [op |-> "push", element |-> s, pre_block |-> block]
    /\ UNCHANGED <<mappings, current_position, source_index, maps, subject>>

\* *block += vector
BlockPushAll ==
  \E v \in StatementVectors :
    /\ calls < MaxCalls
    /\ calls' = calls + 1
    /\ block' = VectorizedPushAll(block, v, 1)
    /\ last' = [op |-> "push_all", vector |-> v, pre_block |-> block]
    /\ UNCHANGED <<mappings, current_position, source_index, maps, subject>>

\* block->unshift(statement)
BlockUnshift ==
  \E s \in Statements :
    /\ calls < MaxCalls
    /\ calls' = calls + 1
    /\ block' = VectorizedUnshift(block, s)
    /\ last' = [op |-> "unshift", element |-> s, pre_block |-> block]
    /\ UNCHANGED <<mappings, current_position, source_index, maps, subject>>

NextBlock == BlockPush \/ BlockPushAll \/ BlockUnshift

SpecBlock == InitBlock /\ [][NextBlock]_vars

----------------------------------------------------------------------------
(* C10: the flags of a Block                                                *)

Contains(b, hoistable) ==
  \E i \in 1..Len(b.elements_) : is_hoistable(b.elements_[i]) = hoistable

\* C10: after any sequence of operations that add statements to a Block,
\* has_hoistable is true iff the block contains a hoistable statement and
\* has_non_hoistable is true iff it contains a non-hoistable statement;
\* appending a null statement changes neither the contents nor the flags.
C10_BlockFlags ==
  /\ block.has_hoistable <=> Contains(block, TRUE)
  /\ block.has_non_hoistable <=> Contains(block, FALSE)
  /\ (last.op = "push" /\ last.element = NullStatement)
       => block = last.pre_block

----------------------------------------------------------------------------
(* Expression trees and set_delayed (ast.hpp: Expression, List, Map)        *)

\* a value that contains nothing: Expression::Expression leaves is_delayed
\* false
Leaf == [type |-> "Boolean", is_delayed |-> FALSE, elements |-> <<>>]

\* List l; l << e1 << e2 ...
ListOf(es) == [type |-> "List", is_delayed |-> FALSE, elements |-> es]

\* Map m; m << make_pair(k, v)
MapOf(k, v) ==
  [type |-> "Map", is_delayed |-> FALSE,
   elements |-> <<[key |-> k, value |-> v]>>]

\* Expression::set_delayed, which Boolean and Map inherit
Expression_set_delayed(e, delayed) == [e EXCEPT !.is_delayed = delayed]

\* the virtual call e->set_delayed(delayed); for a List, List::set_delayed
RECURSIVE set_delayed(_, _)
set_delayed(e, delayed) ==
  IF e.type = "List"
  THEN [e EXCEPT !.elements = [i \in 1..Len(e.elements) |->
                                 set_delayed(e.elements[i], delayed)],
                 !.is_delayed = delayed]
  ELSE Expression_set_delayed(e, delayed)

\* a value is constructed
InitDelayed ==
  /\ mappings = <<>>
  /\ current_position = Pos(0, 0, 0)
  /\ source_index = <<>>
  /\ last = NoCall
  /\ calls = 0
  /\ maps = <<>>
  /\ block = NoBlock
  /\ subject = Leaf

\* the value is put in a new List, alone, before or after another value
WrapInList ==
  \E es \in {<<subject>>, <<subject, Leaf>>, <<Leaf, subject>>} :
    /\ calls < MaxCalls
    /\ calls' = calls + 1
    /\ subject' = ListOf(es)
    /\ last' = [op |-> "list", pre |-> subject]
    /\ UNCHANGED <<mappings, current_position, source_index, maps, block>>

\* the value is put in a new Map, as the key or as the value of its entry
WrapInMap ==
  \E kv \in {<<subject, Leaf>>, <<Leaf, subject>>} :
    /\ calls < MaxCalls
    /\ calls' = calls + 1
    /\ subject' = MapOf(kv[1], kv[2])
    /\ last' = [op |-> "map", pre |-> subject]
    /\ UNCHANGED <<mappings, current_position, source_index, maps, block>>

\* value->set_delayed(delayed)
SetDelayed ==
  \E delayed \in BOOLEAN :
    /\ calls < MaxCalls
    /\ calls' = calls + 1
    /\ subject' = set_delayed(subject, delayed)
    /\ last' = [op |-> "set_delayed", delayed |-> delayed, pre |-> subject]
    /\ UNCHANGED <<mappings, current_position, source_index, maps, block>>

SpecDelayed == InitDelayed /\ [][WrapInList \/ WrapInMap \/ SetDelayed]_vars

----------------------------------------------------------------------------
(* C11: set_delayed on containers                                           *)

\* the values a container holds directly
Contained(e) ==
  IF e.type = "List" THEN {e.elements[i] : i \in 1..Len(e.elements)}
  ELSE IF e.type = "Map"
  THEN {e.elements[i].key : i \in 1..Len(e.elements)}
         \cup {e.elements[i].value : i \in 1..Len(e.elements)}
  ELSE {}

RECURSIVE AllDelayed(_, _)
AllDelayed(e, delayed) ==
  /\ e.is_delayed = delayed
  /\ \A c \in Contained(e) : AllDelayed(c, delayed)

\* C11: after set_delayed(b) on a List or a Map, is_delayed is b on the
\* container and on every element it contains (every key and value of a
\* Map), through nested containers.
C11_SetDelayedReachesAll ==
  last.op = "set_delayed" => AllDelayed(subject, last.delayed)

----------------------------------------------------------------------------
(* Selectors (ast.hpp: Simple_Selector and its subclasses,                  *)
(* Compound_Selector, Complex_Selector, Selector_List)                      *)

\* Constants::Specificity_* (constants.cpp): the universal selector counts
\* nothing; classes, attributes and pseudo-classes count alike
Specificity_Universal == 0

Specificity_Type == 256

Specificity_Class == 65536

Specificity_Attr == 65536

Specificity_Pseudo == 65536

Specificity_ID == 16777216

\* the null pointer
NullSelector == [kind |-> "null"]

\* a simple selector of the class kind with the name n, a sequence of
\* characters; Selector_Placeholder sets has_placeholder, Parent_Selector
\* sets has_reference
Simple(kind, n) ==
  [kind |-> kind, name |-> n, selector |-> NullSelector,
   has_placeholder |-> (kind = "Placeholder"),
   has_reference |-> (kind = "Parent")]

\* Wrapped_Selector(pstate, n, sel)
Wrapped(n, sel) ==
  [kind |-> "Wrapped", name |-> n, selector |-> sel,
   has_placeholder |-> FALSE, has_reference |-> FALSE]

\* Compound_Selector::adjust_after_pushing
CompoundPush(c, simple) ==
  [c EXCEPT !.elements = Append(c.elements, simple),
            !.has_reference = c.has_reference \/ simple.has_reference,
            !.has_placeholder = c.has_placeholder \/ simple.has_placeholder]

RECURSIVE CompoundPushAll(_, _, _)
CompoundPushAll(c, simples, i) ==
  IF i > Len(simples) THEN c
  ELSE CompoundPushAll(CompoundPush(c, simples[i]), simples, i + 1)

\* Compound_Selector c; c << simples[1] << simples[2] ...
CompoundOf(simples) ==
  CompoundPushAll([kind |-> "Compound", elements |-> <<>>,
                   has_reference |-> FALSE, has_placeholder |-> FALSE],
                  simples, 1)

\* Complex_Selector::Complex_Selector(pstate, c, h, t)
ComplexOf(c, h, t) ==
  [kind |-> "Complex", combinator |-> c, head |-> h, tail |-> t,
   has_reference |-> \/ (h.kind # "null" /\ h.has_reference)
                     \/ (t.kind # "null" /\ t.has_reference),
   has_placeholder |-> \/ (h.kind # "null" /\ h.has_placeholder)
                       \/ (t.kind # "null" /\ t.has_placeholder)]

\* Selector_List l; l << complexes[1] << complexes[2] ...
SelectorListOf(complexes) == [kind |-> "List", elements |-> complexes]

\* is_pseudo_class_element
is_pseudo_class_element(n) ==
  \/ n = <<":", "b", "e", "f", "o", "r", "e">>
  \/ n = <<":", "a", "f", "t", "e", "r">>
  \/ n = <<":", "f", "i", "r", "s", "t", "-", "l", "i", "n", "e">>
  \/ n = <<":", "f", "i", "r", "s", "t", "-", "l", "e", "t", "t", "e", "r">>

\* Pseudo_Selector::is_pseudo_element
is_pseudo_element(s) ==
  \/ (s.name[1] = ":" /\ s.name[2] = ":")
  \/ is_pseudo_class_element(s.name)

\* Selector::specificity, the virtual function of the base class
Selector_specificity == Specificity_Universal

RECURSIVE Simple_specificity(_)
RECURSIVE Compound_sum(_, _, _)
RECURSIVE Complex_specificity(_)
RECURSIVE Selector_List_max(_, _, _)
RECURSIVE Virtual_specificity(_)

\* Compound_Selector::specificity: the loop from element i on
Compound_sum(c, i, sum) ==
  IF i > Len(c.elements) THEN sum
  ELSE Compound_sum(c, i + 1, sum + Simple_specificity(c.elements[i]))

\* Compound_Selector::specificity
Compound_specificity(c) == Compound_sum(c, 1, 0)

\* Complex_Selector::specificity() const, made to leave the tail out
Complex_specificity_head_only(c) ==
  IF c.head.kind # "null" THEN Compound_specificity(c.head) ELSE 0

\* Complex_Selector::specificity() const
Complex_specificity(c) ==
  (IF c.head.kind # "null" THEN Compound_specificity(c.head) ELSE 0)
    + (IF c.tail.kind # "null" THEN Complex_specificity(c.tail) ELSE 0)

\* Selector_List::specificity: the loop from element i on
Selector_List_max(l, i, sum) ==
  IF i > Len(l.elements) THEN sum
  ELSE LET specificity == Complex_specificity(l.elements[i])
       IN Selector_List_max(l, i + 1,
                            IF sum < specificity THEN specificity ELSE sum)

\* Selector_List::specificity
Selector_List_specificity(l) == Selector_List_max(l, 1, 0)

\* selector->specificity() through a Selector*: Complex_Selector declares
\* specificity() const, which does not override the virtual function
Virtual_specificity(sel) ==
  CASE sel.kind = "List" -> Selector_List_specificity(sel)
    [] sel.kind = "Compound" -> Compound_specificity(sel)
    [] sel.kind = "Complex" -> Selector_specificity

\* simple->specificity(): the override of the class, or Selector's
Simple_specificity(s) ==
  CASE s.kind = "Parent" -> 0
    [] s.kind = "Placeholder" -> Selector_specificity
    [] s.kind = "Type" ->
         IF s.name = <<"*">> THEN Specificity_Universal ELSE Specificity_Type
    [] s.kind = "Qualifier" ->
         IF s.name[1] = "#" THEN Specificity_ID
         ELSE IF s.name[1] = "." THEN Specificity_Class
         ELSE Specificity_Type
    [] s.kind = "Attribute" -> Specificity_Attr
    [] s.kind = "Pseudo" ->
         IF is_pseudo_element(s) THEN Specificity_Type ELSE Specificity_Pseudo
    [] s.kind = "Wrapped" ->
         IF s.selector.kind # "null" THEN Virtual_specificity(s.selector) ELSE 0

\* a Ruleset whose selector is the list sl, with is_invisible made not to
\* look at every complex selector but to stop at the first
Ruleset_is_invisible_first(sl) ==
  Len(sl.elements) = 0 \/ sl.elements[1].has_placeholder

RECURSIVE Ruleset_invisible_from(_, _, _)
Ruleset_invisible_from(sl, i, is_invisible) ==
  IF i > Len(sl.elements) \/ ~is_invisible THEN is_invisible
  ELSE Ruleset_invisible_from(sl, i + 1,
                              is_invisible /\ sl.elements[i].has_placeholder)

\* Ruleset::is_invisible, of a Ruleset whose selector is the list sl
Ruleset_is_invisible(sl) == Ruleset_invisible_from(sl, 1, TRUE)

----------------------------------------------------------------------------
(* The selectors the functions are called with                              *)

\* the simple selector the parser makes of a text
SimpleOf(text) ==
  CASE text = "a" -> Simple("Type", <<"a">>)
    [] text = "b" -> Simple("Type", <<"b">>)
    [] text = "*" -> Simple("Type", <<"*">>)
    [] text = ".c" -> Simple("Qualifier", <<".", "c">>)
    [] text = ".d" -> Simple("Qualifier", <<".", "d">>)
    [] text = "#i" -> Simple("Qualifier", <<"#", "i">>)
    [] text = "x" -> Simple("Qualifier", <<"x">>)
    [] text = "%p" -> Simple("Placeholder", <<"%", "p">>)
    [] text = "&" -> Simple("Parent", <<"&">>)
    [] text = "[h]" -> Simple("Attribute", <<"h">>)
    [] text = ":hover" -> Simple("Pseudo", <<":", "h", "o", "v", "e", "r">>)
    [] text = "::s" -> Simple("Pseudo", <<":", ":", "s">>)
    [] text = ":before" -> Simple("Pseudo", <<":", "b", "e", "f", "o", "r", "e">>)
    [] text = ":not(#i)" ->
         Wrapped(<<":", "n", "o", "t">>,
                 SelectorListOf(<<ComplexOf("ANCESTOR_OF",
                                            CompoundOf(<<Simple("Qualifier", <<"#", "i">>)>>),
                                            NullSelector)>>))
    [] text = ":not()" -> Wrapped(<<":", "n", "o", "t">>, NullSelector)

SimpleSelectors ==
  {SimpleOf(text) : text \in {"a", "*", ".c", "#i", "x", "%p", "&", "[h]",
                               ":hover", "::s", ":before", ":not(#i)",
                               ":not()"}}

Compounds ==
  {CompoundOf(<<s>>) : s \in SimpleSelectors}
    \cup {CompoundOf(<<>>), CompoundOf(<<SimpleOf("a"), SimpleOf(".c")>>),
          CompoundOf(<<SimpleOf("%p"), SimpleOf(".c")>>)}

\* a head from Compounds or none, followed by nothing or by one more
\* compound
Complexes ==
  LET Tails ==
        {NullSelector}
          \cup {ComplexOf("ANCESTOR_OF", CompoundOf(<<s>>), NullSelector) :
                  s \in {SimpleOf(".c"), SimpleOf("#i"), SimpleOf("%p")}}
  IN {ComplexOf("ANCESTOR_OF", h, t) :
        h \in Compounds \cup {NullSelector}, t \in Tails}

\* the lists of no, one and two complex selectors; the second of two is
\* one of three
SelectorLists ==
  LET SecondAlternatives ==
        {ComplexOf("ANCESTOR_OF", CompoundOf(<<s>>), NullSelector) :
           s \in {SimpleOf("a"), SimpleOf("#i"), SimpleOf("%p")}}
  IN {SelectorListOf(<<>>)}
       \cup {SelectorListOf(<<c>>) : c \in Complexes}
       \cup {SelectorListOf(<<c, d>>) : c \in Complexes, d \in SecondAlternatives}

\* a selector list is parsed
InitSelector ==
  /\ mappings = <<>>
  /\ current_position = Pos(0, 0, 0)
  /\ source_index = <<>>
  /\ last = NoCall
  /\ calls = 0
  /\ maps = <<>>
  /\ block = NoBlock
  /\ subject \in SelectorLists

\* list->specificity()
Specificity ==
  /\ last' = [op |-> "specificity",
              result |-> Selector_List_specificity(subject)]
  /\ UNCHANGED <<mappings, current_position, source_index, calls, maps, block,
                 subject>>

\* ruleset->is_invisible(), the ruleset having the list for selector
IsInvisible ==
  /\ last' = [op |-> "is_invisible", result |-> Ruleset_is_invisible(subject)]
  /\ UNCHANGED <<mappings, current_position, source_index, calls, maps, block,
                 subject>>

SpecSelector == InitSelector /\ [][Specificity \/ IsInvisible]_vars

----------------------------------------------------------------------------
(* C12: when a Ruleset is invisible                                         *)

\* the compounds of a complex selector, head first
RECURSIVE CompoundsOf(_)
CompoundsOf(c) ==
  IF c.kind = "null" THEN <<>>
  ELSE (IF c.head.kind = "null" THEN <<>> ELSE <<c.head>>) \o CompoundsOf(c.tail)

\* the simple selectors of a complex selector
SimplesOf(c) ==
  LET cs == CompoundsOf(c)
  IN UNION {{cs[i].elements[j] : j \in 1..Len(cs[i].elements)} :
              i \in 1..Len(cs)}

PlaceholderOnly(c) ==
  /\ SimplesOf(c) # {}
  /\ \A s \in SimplesOf(c) : s.kind = "Placeholder"

ContainsPlaceholder(c) == \E s \in SimplesOf(c) : s.kind = "Placeholder"

Alternatives(l) == {l.elements[i] : i \in 1..Len(l.elements)}

\* C12 as claimed: a Ruleset is invisible exactly when every complex
\* selector of its list is made of placeholder selectors only.
C12_InvisibleIffPlaceholderOnly ==
  last.op = "is_invisible" =>
    (last.result <=> \A c \in Alternatives(subject) : PlaceholderOnly(c))

\* C12: a Ruleset is invisible exactly when every complex selector of its
\* list contains a placeholder selector; other simple selectors beside the
\* placeholder do not make it visible.
C12_InvisibleIffEveryHasPlaceholder ==
  last.op = "is_invisible" =>
    (last.result <=> \A c \in Alternatives(subject) : ContainsPlaceholder(c))

C12_Witness ==
  /\ last.op = "is_invisible"
  /\ last.result
  /\ Len(subject.elements) = 2
  /\ \E c \in Alternatives(subject) : ~PlaceholderOnly(c)

----------------------------------------------------------------------------
(* @at-root (ast.hpp: At_Rule, At_Root_Expression, At_Root_Block)           *)

\* a null String* or List*
NullValue == [kind |-> "null"]

\* At_Rule::is_keyframes; a keyword is the pair of its '@' and the rest
is_keyframes(keyword) ==
  \/ keyword = <<"@", "-webkit-keyframes">>
  \/ keyword = <<"@", "-moz-keyframes">>
  \/ keyword = <<"@", "-o-keyframes">>
  \/ keyword = <<"@", "keyframes">>

\* keyword().erase(0, 1)
EraseFirst(keyword) == keyword[2]

\* the loop of At_Root_Expression::exclude over the list, from element i:
\* found is returned at the first element that is "all" or str
RECURSIVE ExcludeLoop(_, _, _, _)
ExcludeLoop(l, str, i, found) ==
  IF i > Len(l.elements) THEN ~found
  ELSE IF l.elements[i] = "all" \/ l.elements[i] = str THEN found
  ELSE ExcludeLoop(l, str, i + 1, found)

\* exclude, with "all" standing for nothing but itself
exclude_all_is_a_kind(e, str) ==
  LET with == e.feature.kind # "null" /\ e.feature.text = "with"
      listed == e.value.kind # "null" /\ \E i \in 1..Len(e.value.elements) :
                                           e.value.elements[i] = str
  IN IF e.value.kind = "null" \/ Len(e.value.elements) = 0
     THEN (IF with THEN str # "rule" ELSE str = "rule")
     ELSE (IF with THEN ~listed ELSE listed)

\* At_Root_Expression::exclude
exclude(e, str) ==
  LET with == e.feature.kind # "null" /\ e.feature.text = "with"
      l == e.value
  IN IF with
     THEN IF l.kind = "null" \/ Len(l.elements) = 0 THEN str # "rule"
          ELSE ExcludeLoop(l, str, 1, FALSE)
     ELSE IF l.kind = "null" \/ Len(l.elements) = 0 THEN str = "rule"
          ELSE ExcludeLoop(l, str, 1, TRUE)

\* At_Root_Block::exclude_node: what the call can return. A statement of
\* another type than the four is read as if it were an At_Rule; its keyword
\* is then whatever lies there, a keyframes keyword or not.
exclude_node(e, s) ==
  CASE s.statement_type = "DIRECTIVE" -> {exclude(e, EraseFirst(s.keyword))}
    [] s.statement_type = "MEDIA" -> {exclude(e, "media")}
    [] s.statement_type = "RULESET" -> {exclude(e, "rule")}
    [] s.statement_type = "SUPPORTS" -> {exclude(e, "supports")}
    [] OTHER -> {exclude(e, "keyframes"), FALSE}

\* the statements that can enclose an @at-root, with their statement_type
Wrappers ==
  {[class |-> "At_Rule", statement_type |-> "DIRECTIVE", keyword |-> <<"@", k>>] :
     k \in {"keyframes", "-webkit-keyframes", "-moz-keyframes",
            "-o-keyframes", "font-face"}}
    \cup {[class |-> "Ruleset", statement_type |-> "RULESET", keyword |-> <<>>],
          [class |-> "Media_Block", statement_type |-> "MEDIA", keyword |-> <<>>],
          [class |-> "Supports_Block", statement_type |-> "SUPPORTS", keyword |-> <<>>],
          [class |-> "Keyframe_Rule", statement_type |-> "KEYFRAMERULE", keyword |-> <<>>]}

\* the expressions of @at-root: no feature, with or without; no list, or a
\* list of kinds, each element being the text unquote(to_string) gives
At_Root_Expressions ==
  {[feature |-> f, value |-> v] :
     f \in {NullValue, [kind |-> "String", text |-> "with"],
            [kind |-> "String", text |-> "without"]},
     v \in {NullValue} \cup
           {[kind |-> "List", elements |-> l] :
              l \in {<<>>, <<"rule">>, <<"media">>, <<"keyframes">>, <<"all">>,
                     <<"media", "supports">>, <<"media", "all">>}}}

\* the kinds exclude is asked about
Kinds == {"rule", "media", "supports", "keyframes", "-webkit-keyframes"}

\* an @at-root block with its expression, inside a wrapper statement
InitAtRoot ==
  /\ mappings = <<>>
  /\ current_position = Pos(0, 0, 0)
  /\ source_index = <<>>
  /\ last = NoCall
  /\ calls = 0
  /\ maps = <<>>
  /\ block = NoBlock
  /\ subject \in {[expression |-> e, wrapper |-> w] :
                    e \in At_Root_Expressions, w \in Wrappers}

\* expression->exclude(str)
Exclude ==
  \E str \in Kinds :
    /\ last' = [op |-> "exclude", str |-> str,
                result |-> exclude(subject.expression, str)]
    /\ UNCHANGED <<mappings, current_position, source_index, calls, maps,
                   block, subject>>

\* at_root_block->exclude_node(wrapper)
ExcludeNode ==
  \E result \in exclude_node(subject.expression, subject.wrapper) :
    /\ last' = [op |-> "exclude_node", result |-> result]
    /\ UNCHANGED <<mappings, current_position, source_index, calls, maps,
                   block, subject>>

SpecAtRoot == InitAtRoot /\ [][Exclude \/ ExcludeNode]_vars

----------------------------------------------------------------------------
(* C13: exclude(kind)                                                       *)

IsWith(e) == e.feature.kind # "null" /\ e.feature.text = "with"

ListedKinds(e) ==
  IF e.value.kind = "null" THEN {}
  ELSE {e.value.elements[i] : i \in 1..Len(e.value.elements)}

\* C13: with a non-empty list, exclude(kind) is false under "with" iff the
\* kind or "all" is listed, and true under any other feature iff the kind
\* or "all" is listed; with an empty or absent list "with" strips every kind
\* but "rule" and the default strips "rule" only; the two modes always give
\* opposite answers for the same list and kind.
C13_ExcludeGating ==
  last.op = "exclude" =>
    LET e == subject.expression
        listed == last.str \in ListedKinds(e) \/ "all" \in ListedKinds(e)
    IN /\ (ListedKinds(e) # {} /\ IsWith(e)) => (last.result <=> ~listed)
       /\ (ListedKinds(e) # {} /\ ~IsWith(e)) => (last.result <=> listed)
       /\ (ListedKinds(e) = {} /\ IsWith(e)) => (last.result <=> last.str # "rule")
       /\ (ListedKinds(e) = {} /\ ~IsWith(e)) => (last.result <=> last.str = "rule")
       /\ \A f \in {"with", "without"} :
            (IsWith(e) <=> f # "with") =>
              exclude([e EXCEPT !.feature = [kind |-> "String", text |-> f]],
                      last.str) # last.result

C13_Witness ==
  /\ last.op = "exclude"
  /\ IsWith(subject.expression)
  /\ Cardinality(ListedKinds(subject.expression)) = 2
  /\ "all" \in ListedKinds(subject.expression)
  /\ last.str \notin ListedKinds(subject.expression)
  /\ ~last.result

----------------------------------------------------------------------------
(* C14: the kind a wrapper is gated under                                   *)

GatedKind(w) ==
  CASE w.class = "At_Rule" /\ is_keyframes(w.keyword) -> "keyframes"
    [] w.class = "Ruleset" -> "rule"
    [] w.class = "Media_Block" -> "media"
    [] w.class = "Supports_Block" -> "supports"
    [] OTHER -> "none"

\* C14: exclude_node gates an at-rule with any of the keyframes keywords
\* under the kind "keyframes", and a Ruleset, a Media_Block and a
\* Supports_Block under "rule", "media" and "supports".
C14_WrapperKinds ==
  (last.op = "exclude_node" /\ GatedKind(subject.wrapper) # "none") =>
    last.result = exclude(subject.expression, GatedKind(subject.wrapper))

----------------------------------------------------------------------------
(* C15: specificity of lists, complex and compound selectors                *)

SetMax(S) == CHOOSE m \in S : \A n \in S : n <= m

\* the sum of the specificities of the simple selectors, last one first
RECURSIVE SumOfSimples(_)
SumOfSimples(simples) ==
  IF simples = <<>> THEN 0
  ELSE Simple_specificity(simples[Len(simples)])
         + SumOfSimples(SubSeq(simples, 1, Len(simples) - 1))

\* a complex selector and the complex selectors that follow it
RECURSIVE ChainOf(_)
ChainOf(c) == IF c.kind = "null" THEN {} ELSE {c} \cup ChainOf(c.tail)

\* C15: the specificity of a selector list is the maximum of the
\* specificities of its complex selectors, 0 for the empty list; that of a
\* complex selector is the specificity of its head plus that of its tail,
\* an absent one counting 0; that of a compound is the sum over its simple
\* selectors.
C15_SpecificityHomomorphism ==
  last.op = "specificity" =>
    /\ last.result =
         SetMax({Complex_specificity(c) : c \in Alternatives(subject)} \cup {0})
    /\ \A a \in Alternatives(subject) : \A c \in ChainOf(a) :
         /\ Complex_specificity(c) =
              (IF c.head.kind = "null" THEN 0 ELSE Compound_specificity(c.head))
                + (IF c.tail.kind = "null" THEN 0 ELSE Complex_specificity(c.tail))
         /\ c.head.kind # "null" =>
              Compound_specificity(c.head) = SumOfSimples(c.head.elements)

C15_Witness ==
  /\ last.op = "specificity"
  /\ Len(subject.elements) = 2
  /\ Complex_specificity(subject.elements[1])
       > Complex_specificity(subject.elements[2])
  /\ Complex_specificity(subject.elements[2]) > 0
  /\ LET c == subject.elements[1]
     IN /\ c.head.kind # "null" /\ c.tail.kind # "null"
        /\ Len(c.head.elements) = 2
        /\ Compound_specificity(c.head) > 0
        /\ Complex_specificity(c.tail) > 0
  /\ last.result = Complex_specificity(subject.elements[1])

----------------------------------------------------------------------------
(* C16: specificity of the kinds of simple selectors                        *)

\* the specificity C16 gives a simple selector
ClaimedSpecificity(s) ==
  CASE s.kind = "Parent" -> 0
    [] s.kind = "Placeholder" -> Specificity_Class
    [] s.kind = "Type" ->
         IF s.name = <<"*">> THEN 0 ELSE Specificity_Type
    [] s.kind = "Qualifier" ->
         IF Head(s.name) = "#" THEN Specificity_ID
         ELSE IF Head(s.name) = "." THEN Specificity_Class
         ELSE Specificity_Type
    [] s.kind = "Attribute" -> Specificity_Attr
    [] s.kind = "Pseudo" ->
         IF \/ SubSeq(s.name, 1, 2) = <<":", ":">>
            \/ s.name \in {<<":", "b", "e", "f", "o", "r", "e">>,
                            <<":", "a", "f", "t", "e", "r">>}
         THEN Specificity_Type ELSE Specificity_Pseudo
    [] s.kind = "Wrapped" ->
         IF s.selector.kind = "null" THEN 0
         ELSE Selector_List_specificity(s.selector)

\* C16: Parent is 0, Placeholder class, Type type but 0 for '*', Qualifier
\* id for '#', class for '.' and type otherwise, Attribute attribute, Pseudo
\* type for a pseudo-element and pseudo-class otherwise, Wrapped the
\* specificity of its inner selector.
C16_SimpleSpecificity ==
  last.op = "specificity" =>
    \A a \in Alternatives(subject) : \A s \in SimplesOf(a) :
      Simple_specificity(s) = ClaimedSpecificity(s)

----------------------------------------------------------------------------
(* Parameter and Parameters (ast.hpp)                                       *)

\* the parameters Parameter::Parameter constructs: one with a default value
\* that is a rest parameter too is an error there
ParameterObjects ==
  {p \in [name : {"$a", "$b"}, default_value : {"null", "value"},
          is_rest_parameter : BOOLEAN] :
     ~(p.default_value # "null" /\ p.is_rest_parameter)}

\* Parameters::adjust_after_pushing, made to let a required parameter
\* follow an optional one
adjust_after_pushing_no_order(ps, p) ==
  IF p.default_value # "null"
  THEN [parameters |-> [ps EXCEPT !.has_optional_parameters =
                                    ~ps.has_rest_parameter \/ @],
        error |-> IF ps.has_rest_parameter
                  THEN "optional parameters may not be combined with variable-length parameters"
                  ELSE "none"]
  ELSE IF p.is_rest_parameter
  THEN [parameters |-> [ps EXCEPT !.has_rest_parameter = TRUE],
        error |-> IF ps.has_rest_parameter
                  THEN "functions and mixins cannot have more than one variable-length parameter"
                  ELSE "none"]
  ELSE [parameters |-> ps,
        error |-> IF ps.has_rest_parameter
                  THEN "required parameters must precede variable-length parameters"
                  ELSE "none"]

\* Parameters::adjust_after_pushing on the list the parameter is already
\* in: the list it leaves, and the error it throws or "none"
Parameters_adjust_after_pushing(ps, p) ==
  IF p.default_value # "null"
  THEN IF ps.has_rest_parameter
       THEN [parameters |-> ps,
             error |-> "optional parameters may not be combined with variable-length parameters"]
       ELSE [parameters |-> [ps EXCEPT !.has_optional_parameters = TRUE],
             error |-> "none"]
  ELSE IF p.is_rest_parameter
  THEN IF ps.has_rest_parameter
       THEN [parameters |-> ps,
             error |-> "functions and mixins cannot have more than one variable-length parameter"]
       ELSE [parameters |-> [ps EXCEPT !.has_rest_parameter = TRUE],
             error |-> "none"]
  ELSE IF ps.has_rest_parameter
       THEN [parameters |-> ps,
             error |-> "required parameters must precede variable-length parameters"]
       ELSE IF ps.has_optional_parameters
       THEN [parameters |-> ps,
             error |-> "required parameters must precede optional parameters"]
       ELSE [parameters |-> ps, error |-> "none"]

\* Parameters::Parameters
InitParameters ==
  /\ mappings = <<>>
  /\ current_position = Pos(0, 0, 0)
  /\ source_index = <<>>
  /\ last = NoCall
  /\ calls = 0
  /\ maps = <<>>
  /\ block = NoBlock
  /\ subject \in {[elements_ |-> <<>>, hash_ |-> h,
                    has_optional_parameters |-> FALSE,
                    has_rest_parameter |-> FALSE] : h \in IndeterminateHashes}

\* *parameters << p (Vectorized::operator<<), as long as no error has been
\* thrown: the parser gives up at the first
PushParameter ==
  \E p \in ParameterObjects :
    LET pushed == [subject EXCEPT !.hash_ = Zero,
                                  !.elements_ = Append(subject.elements_, p)]
        adjusted == Parameters_adjust_after_pushing(pushed, p)
    IN /\ calls < MaxCalls
       /\ last.op = "push" => last.error = "none"
       /\ calls' = calls + 1
       /\ subject' = adjusted.parameters
       /\ last' = [op |-> "push", p |-> p, error |-> adjusted.error,
                   pre |-> subject]
       /\ UNCHANGED <<mappings, current_position, source_index, maps, block>>

SpecParameters == InitParameters /\ [][PushParameter]_vars

----------------------------------------------------------------------------
(* C17: the order of parameters                                             *)

IsRest(p) == p.is_rest_parameter

IsOptional(p) == p.default_value # "null" /\ ~p.is_rest_parameter

IsRequired(p) == p.default_value = "null" /\ ~p.is_rest_parameter

Has(ps, K(_)) == \E i \in 1..Len(ps) : K(ps[i])

\* required* optional* rest?
WellShaped(ps) ==
  \A i, j \in 1..Len(ps) :
    i < j => /\ ~(IsRequired(ps[j]) /\ ~IsRequired(ps[i]))
             /\ ~(IsOptional(ps[j]) /\ IsRest(ps[i]))
             /\ ~(IsRest(ps[j]) /\ IsRest(ps[i]))

\* C17: appending a parameter raises an error exactly when a required one
\* comes after an optional or a rest parameter, an optional one after a
\* rest parameter, or a rest parameter after a rest parameter; a list
\* appended to without error has the shape required* optional* rest?, and
\* its two flags are true iff an optional, a rest parameter has been
\* appended.
C17_ParameterOrder ==
  last.op = "push" =>
    LET before == last.pre.elements_
        p == last.p
    IN /\ last.error # "none" <=>
            \/ IsRequired(p) /\ (Has(before, IsOptional) \/ Has(before, IsRest))
            \/ IsOptional(p) /\ Has(before, IsRest)
            \/ IsRest(p) /\ Has(before, IsRest)
       /\ last.error = "none" =>
            /\ WellShaped(subject.elements_)
            /\ subject.has_optional_parameters <=> Has(subject.elements_, IsOptional)
            /\ subject.has_rest_parameter <=> Has(subject.elements_, IsRest)

C17_Witness ==
  /\ last.op = "push"
  /\ last.error = "required parameters must precede optional parameters"
  /\ Len(last.pre.elements_) = 2
  /\ IsRequired(last.pre.elements_[1])

----------------------------------------------------------------------------
(* Node::naiveTrim (node.cpp)                                               *)

\* the nodes of a collection: selector nodes, each with the Complex_Selector
\* it points to (which object, and the text it is compared by), and
\* combinator nodes
NodeObjects ==
  {[type |-> "SELECTOR", selector |-> [object |-> o, text |-> t],
    combinator |-> "ANCESTOR_OF"] : o \in {1, 2}, t \in {"a", "b"}}
    \cup {[type |-> "COMBINATOR", selector |-> [object |-> 0, text |-> ""],
           combinator |-> "PARENT_OF"]}

\* sel_set.find(selector) != sel_set.end(): Complex_Selector_Pointer_Compare
\* takes two selectors of the same text for one
FoundIn(sel_set, selector) == \E x \in sel_set : x.text = selector.text

\* the first loop of naiveTrim, made to walk front to back
RECURSIVE NaiveTrimForward(_, _, _, _)
NaiveTrimForward(nodes, i, sel_set, res) ==
  IF i < 1 THEN res
  ELSE IF nodes[Len(nodes) + 1 - i].type = "SELECTOR"
            /\ FoundIn(sel_set, nodes[Len(nodes) + 1 - i].selector)
  THEN NaiveTrimForward(nodes, i - 1, sel_set, res)
  ELSE NaiveTrimForward(nodes, i - 1,
         IF nodes[Len(nodes) + 1 - i].type = "SELECTOR"
         THEN sel_set \cup {nodes[Len(nodes) + 1 - i].selector} ELSE sel_set,
         <<nodes[Len(nodes) + 1 - i]>> \o res)

\* the first loop of naiveTrim, from position i down to the front: res
\* grows at its end, as push_back does
RECURSIVE NaiveTrimLoop(_, _, _, _)
NaiveTrimLoop(nodes, i, sel_set, res) ==
  IF i < 1 THEN res
  ELSE IF nodes[i].type = "SELECTOR"
  THEN IF ~FoundIn(sel_set, nodes[i].selector)
       THEN NaiveTrimLoop(nodes, i - 1, sel_set \cup {nodes[i].selector},
                          Append(res, nodes[i]))
       ELSE NaiveTrimLoop(nodes, i - 1, sel_set, res)
  ELSE NaiveTrimLoop(nodes, i - 1, sel_set, Append(res, nodes[i]))

\* Node::naiveTrim: the second loop copies res into the result, last first
naiveTrim(seqses) ==
  LET res == NaiveTrimLoop(seqses, Len(seqses), {}, <<>>)
  IN [j \in 1..Len(res) |-> res[Len(res) + 1 - j]]

\* a collection node
InitNode ==
  /\ mappings = <<>>
  /\ current_position = Pos(0, 0, 0)
  /\ source_index = <<>>
  /\ last = NoCall
  /\ calls = 0
  /\ maps = <<>>
  /\ block = NoBlock
  /\ subject \in UNION {[1..n -> NodeObjects] : n \in 0..MaxNodes}

\* Node::naiveTrim(seqses, ctx)
NaiveTrim ==
  /\ last' = [op |-> "naiveTrim", result |-> naiveTrim(subject), pre |-> subject]
  /\ UNCHANGED <<mappings, current_position, source_index, calls, maps, block,
                 subject>>

SpecNode == InitNode /\ [][NaiveTrim]_vars

----------------------------------------------------------------------------
(* C18: what naiveTrim keeps                                                *)

\* node i of the input goes: a selector node with an equivalent selector
\* node after it
Dropped(nodes, i) ==
  /\ nodes[i].type = "SELECTOR"
  /\ \E j \in (i + 1)..Len(nodes) :
       nodes[j].type = "SELECTOR" /\ nodes[j].selector.text = nodes[i].selector.text

\* the nodes from i on that are not dropped, in their order
RECURSIVE KeptFrom(_, _)
KeptFrom(nodes, i) ==
  IF i > Len(nodes) THEN <<>>
  ELSE (IF Dropped(nodes, i) THEN <<>> ELSE <<nodes[i]>>) \o KeptFrom(nodes, i + 1)

\* C18: naiveTrim returns the input without the selector nodes that have an
\* equivalent selector node later in the input: every other node is kept,
\* in the order of the input, one selector node of every class of
\* equivalent ones is among them, and the input is as it was.
C18_NaiveTrimKeepsLast ==
  last.op = "naiveTrim" =>
    /\ last.result = KeptFrom(subject, 1)
    /\ \A i \in 1..Len(subject) : subject[i].type = "SELECTOR" =>
         \E j \in 1..Len(last.result) :
           /\ last.result[j].type = "SELECTOR"
           /\ last.result[j].selector.text = subject[i].selector.text
    /\ subject = last.pre

C18_Witness ==
  /\ last.op = "naiveTrim"
  /\ Len(subject) = 3
  /\ Len(last.result) = 2
  /\ subject[1].type = "SELECTOR" /\ subject[3].type = "SELECTOR"
  /\ subject[1].selector.text = subject[3].selector.text
  /\ subject[1].selector.object # subject[3].selector.object
  /\ subject[2].type = "COMBINATOR"
  /\ last.result = <<subject[2], subject[3]>>

----------------------------------------------------------------------------
(* The superselector relation and unification (bodies in ast.cpp; taken     *)
(* from the specification, sections 4.2 and 4.3)                            *)

\* the chain of a complex selector as a sequence of links, first link
\* first; the combinator of a link is the one that follows its head
RECURSIVE Links(_)
Links(c) ==
  IF c.kind = "null" THEN <<>>
  ELSE <<[head |-> c.head, combinator |-> c.combinator]>> \o Links(c.tail)

\* the complex selector of a sequence of links, from link i on
RECURSIVE FromLinks(_, _)
FromLinks(ls, i) ==
  IF i > Len(ls) THEN NullSelector
  ELSE ComplexOf(ls[i].combinator, ls[i].head, FromLinks(ls, i + 1))

RECURSIVE Compound_is_superselector_of(_, _)
RECURSIVE Complex_is_superselector_of(_, _)
RECURSIVE Selector_List_is_superselector_of(_, _)

\* Compound_Selector::is_superselector_of(Compound_Selector*): every
\* simple selector of A matches some simple selector of B; the universal
\* selector matches any, a :not(X) matches a :not(Y) that X super-selects
Compound_is_superselector_of(A, B) ==
  \A i \in 1..Len(A.elements) :
    \E j \in 1..Len(B.elements) :
      LET s == A.elements[i]
          t == B.elements[j]
      IN \/ s = t
         \/ s.kind = "Type" /\ s.name = <<"*">>
         \/ /\ s.kind = "Wrapped" /\ t.kind = "Wrapped"
            /\ s.name = <<":", "n", "o", "t">> /\ t.name = s.name
            /\ s.selector.kind = "List" /\ t.selector.kind = "List"
            /\ Selector_List_is_superselector_of(s.selector, t.selector)

\* Complex_Selector::is_superselector_of, made to take a prefix of B that
\* stops short of the compound before the last
Complex_is_superselector_of_strict(A, B) ==
  LET RECURSIVE ChainSup(_, _)
      ChainSup(as, bs) ==
        /\ as # <<>> /\ bs # <<>>
        /\ Compound_is_superselector_of(as[Len(as)].head, bs[Len(bs)].head)
        /\ \/ Len(as) = 1
           \/ \E k \in 1..(Len(bs) - 2) :
                /\ \/ as[Len(as) - 1].combinator = "ANCESTOR_OF"
                   \/ /\ k = Len(bs) - 1
                      /\ bs[k].combinator = as[Len(as) - 1].combinator
                /\ ChainSup(SubSeq(as, 1, Len(as) - 1), SubSeq(bs, 1, k))
  IN ChainSup(Links(A), Links(B))

\* Complex_Selector::is_superselector_of(Complex_Selector*): the last
\* compound of A super-selects the last of B, and the rest of A
\* super-selects some prefix of B; a descendant combinator matches any, any
\* other combinator only itself, at the compound right before
Complex_is_superselector_of(A, B) ==
  LET RECURSIVE ChainSup(_, _)
      ChainSup(as, bs) ==
        /\ as # <<>> /\ bs # <<>>
        /\ Compound_is_superselector_of(as[Len(as)].head, bs[Len(bs)].head)
        /\ \/ Len(as) = 1
           \/ \E k \in 1..(Len(bs) - 1) :
                /\ \/ as[Len(as) - 1].combinator = "ANCESTOR_OF"
                   \/ /\ k = Len(bs) - 1
                      /\ bs[k].combinator = as[Len(as) - 1].combinator
                /\ ChainSup(SubSeq(as, 1, Len(as) - 1), SubSeq(bs, 1, k))
  IN ChainSup(Links(A), Links(B))

\* Selector_List::is_superselector_of(Selector_List*)
Selector_List_is_superselector_of(A, B) ==
  \A j \in 1..Len(B.elements) :
    \E i \in 1..Len(A.elements) :
      Complex_is_superselector_of(A.elements[i], B.elements[j])

\* Simple_Selector::unify_with(Compound_Selector*): the compound with the
\* simple selector added; of two type selectors the one that is not
\* universal stays, and two different ones do not unify
Simple_unify_with(s, comp) ==
  IF comp.kind = "null" THEN NullSelector
  ELSE IF \E j \in 1..Len(comp.elements) : comp.elements[j] = s THEN comp
  ELSE IF s.kind # "Type" THEN CompoundOf(Append(comp.elements, s))
  ELSE IF \A j \in 1..Len(comp.elements) : comp.elements[j].kind # "Type"
  THEN CompoundOf(<<s>> \o comp.elements)
  ELSE LET j == CHOOSE j \in 1..Len(comp.elements) : comp.elements[j].kind = "Type"
       IN IF s.name = <<"*">> THEN comp
          ELSE IF comp.elements[j].name = <<"*">>
          THEN CompoundOf([comp.elements EXCEPT ![j] = s])
          ELSE NullSelector

\* Compound_Selector::unify_with, made to return the left operand
Compound_unify_with_left(A, B) == A

\* Compound_Selector::unify_with(rhs): A with the simple selectors of B
\* added one by one, or null
Compound_unify_with(A, B) ==
  LET RECURSIVE Fold(_, _)
      Fold(unified, i) ==
        IF i > Len(B.elements) THEN unified
        ELSE Fold(Simple_unify_with(B.elements[i], unified), i + 1)
  IN Fold(A, 1)

\* the weave of two chains that lead to one compound: sequences of links
\* that keep the order of both. descendant o X = X, child o child = child
\* with the two parents unified, any other pair of combinators prunes
RECURSIVE Weave(_, _)
Weave(as, bs) ==
  IF as = <<>> THEN {bs}
  ELSE IF bs = <<>> THEN {as}
  ELSE LET la == as[Len(as)]
           lb == bs[Len(bs)]
           fa == SubSeq(as, 1, Len(as) - 1)
           fb == SubSeq(bs, 1, Len(bs) - 1)
       IN IF la.combinator = "ANCESTOR_OF" /\ lb.combinator = "ANCESTOR_OF"
          THEN {Append(w, la) : w \in Weave(fa, bs)}
                 \cup {Append(w, lb) : w \in Weave(as, fb)}
          ELSE IF la.combinator = "ANCESTOR_OF"
          THEN {Append(w, lb) : w \in Weave(as, fb)}
          ELSE IF lb.combinator = "ANCESTOR_OF"
          THEN {Append(w, la) : w \in Weave(fa, bs)}
          ELSE IF la.combinator = "PARENT_OF" /\ lb.combinator = "PARENT_OF"
          THEN LET p == Compound_unify_with(la.head, lb.head)
               IN IF p.kind = "null" THEN {}
                  ELSE {Append(w, [head |-> p, combinator |-> "PARENT_OF"]) :
                          w \in Weave(fa, fb)}
          ELSE {}

\* Complex_Selector::unify_with(rhs): the complex selectors of the list
\* returned, none when the last compounds do not unify
Complex_unify_with(A, B) ==
  LET as == Links(A)
      bs == Links(B)
      unified == Compound_unify_with(as[Len(as)].head, bs[Len(bs)].head)
  IN IF unified.kind = "null" THEN {}
     ELSE {FromLinks(Append(w, [head |-> unified,
                                combinator |-> as[Len(as)].combinator]), 1) :
             w \in Weave(SubSeq(as, 1, Len(as) - 1), SubSeq(bs, 1, Len(bs) - 1))}

\* Selector_List::unify_with(rhs): every alternative with every alternative
Selector_List_unify_with(A, B) ==
  UNION {Complex_unify_with(A.elements[i], B.elements[j]) :
           i \in 1..Len(A.elements), j \in 1..Len(B.elements)}

\* the selectors the two operations are called with, by level: compounds,
\* complex selectors of one to three compounds, and selector lists of up
\* to two complex selectors
AlgebraSelectors ==
  LET One(h) == ComplexOf("ANCESTOR_OF", h, NullSelector)
      Two(h, c, t) == ComplexOf(c, h, One(t))
      Not(text) == Wrapped(<<":", "n", "o", "t">>,
                           SelectorListOf(<<One(CompoundOf(<<SimpleOf(text)>>))>>))
      a == CompoundOf(<<SimpleOf("a")>>)
      b == CompoundOf(<<SimpleOf("b")>>)
      u == CompoundOf(<<SimpleOf("*")>>)
      c == CompoundOf(<<SimpleOf(".c")>>)
      ac == CompoundOf(<<SimpleOf("a"), SimpleOf(".c")>>)
      ad == CompoundOf(<<SimpleOf("a"), SimpleOf(".d")>>)
      compounds == {a, b, u, c, ac, ad, CompoundOf(<<Not("#i")>>),
                    CompoundOf(<<Not("*")>>)}
      chains == {Two(a, "ANCESTOR_OF", c), Two(a, "PARENT_OF", c),
                 Two(b, "ANCESTOR_OF", ac), Two(u, "PARENT_OF", ad),
                 Two(a, "PRECEDES", c), Two(b, "PARENT_OF", c),
                 ComplexOf("ANCESTOR_OF", a, Two(b, "PARENT_OF", c)),
                 ComplexOf("PARENT_OF", a, Two(b, "ANCESTOR_OF", c)),
                 ComplexOf("ANCESTOR_OF", b, Two(a, "PARENT_OF", c))}
      lists == {SelectorListOf(<<>>)}
                 \cup {SelectorListOf(<<One(h)>>) : h \in {a, c, ac}}
                 \cup {SelectorListOf(<<x>>) :
                         x \in {Two(a, "ANCESTOR_OF", c), Two(a, "PARENT_OF", c),
                                Two(b, "ANCESTOR_OF", ac)}}
                 \cup {SelectorListOf(<<One(a), One(c)>>),
                       SelectorListOf(<<Two(a, "ANCESTOR_OF", c), One(b)>>),
                       SelectorListOf(<<One(ac), One(ad)>>),
                       SelectorListOf(<<One(u), Two(a, "PARENT_OF", c)>>)}
  IN [Compound |-> compounds,
      Complex |-> {One(h) : h \in compounds} \cup chains,
      List |-> lists]

\* three selectors of one level
InitAlgebra ==
  /\ mappings = <<>>
  /\ current_position = Pos(0, 0, 0)
  /\ source_index = <<>>
  /\ last = NoCall
  /\ calls = 0
  /\ maps = <<>>
  /\ block = NoBlock
  /\ \E level \in DOMAIN AlgebraSelectors :
       subject \in [1..3 -> AlgebraSelectors[level]]

\* lhs->is_superselector_of(rhs), the overload of the level of lhs
is_superselector_of(lhs, rhs) ==
  CASE lhs.kind = "Compound" -> Compound_is_superselector_of(lhs, rhs)
    [] lhs.kind = "Complex" -> Complex_is_superselector_of(lhs, rhs)
    [] lhs.kind = "List" -> Selector_List_is_superselector_of(lhs, rhs)

\* lhs->unify_with(rhs, ctx), the overload of the level of lhs: the set of
\* the selectors returned, empty for a null pointer or an empty list
unify_with(lhs, rhs) ==
  CASE lhs.kind = "Compound" ->
         {Compound_unify_with(lhs, rhs)} \ {NullSelector}
    [] lhs.kind = "Complex" -> Complex_unify_with(lhs, rhs)
    [] lhs.kind = "List" -> Selector_List_unify_with(lhs, rhs)

\* is_superselector_of is called on the pairs of the three selectors
IsSuperselectorOf ==
  /\ last' = [op |-> "is_superselector_of",
              aa |-> is_superselector_of(subject[1], subject[1]),
              ab |-> is_superselector_of(subject[1], subject[2]),
              bc |-> is_superselector_of(subject[2], subject[3]),
              ac |-> is_superselector_of(subject[1], subject[3])]
  /\ UNCHANGED <<mappings, current_position, source_index, calls, maps, block,
                 subject>>

\* the first selector is unified with the second
UnifyWith ==
  /\ last' = [op |-> "unify_with", result |-> unify_with(subject[1], subject[2])]
  /\ UNCHANGED <<mappings, current_position, source_index, calls, maps, block,
                 subject>>

SpecAlgebra == InitAlgebra /\ [][IsSuperselectorOf \/ UnifyWith]_vars

----------------------------------------------------------------------------
(* C19: the superselector relation is a preorder                            *)

\* C19: at the level of compounds, of complex selectors and of selector
\* lists, A is a superselector of A, and of C when it is one of B and B is
\* one of C; and a list A is a superselector of a list B exactly when every
\* alternative of B has an alternative of A that is a superselector of it.
C19_SuperselectorPreorder ==
  last.op = "is_superselector_of" =>
    /\ last.aa
    /\ (last.ab /\ last.bc) => last.ac
    /\ subject[1].kind = "List" =>
         (last.ab <=> \A y \in Alternatives(subject[2]) :
                        \E x \in Alternatives(subject[1]) :
                          Complex_is_superselector_of(x, y))

\* three different complex selectors, the first with more than one
\* compound, each a superselector of the next
C19_Witness ==
  /\ last.op = "is_superselector_of"
  /\ subject[1].kind = "Complex"
  /\ subject[1].tail.kind # "null"
  /\ subject[1] # subject[2] /\ subject[2] # subject[3]
  /\ last.ab /\ last.bc /\ last.ac

----------------------------------------------------------------------------
(* C20: unification stays below both operands                               *)

\* R as a selector of the level of A
AtLevelOf(A, R) ==
  IF A.kind = "List" THEN SelectorListOf(<<R>>) ELSE R

----------------------------------------------------------------------------
(* Parentize (bodies in ast.cpp; taken from the specification, section 4.1) *)

\* the simple selectors of a compound that are not the parent selector
WithoutParent(elements) == SelectSeq(elements, LAMBDA s : s.kind # "Parent")

\* the place of a parent in a link of a chain: an empty head, or a head
\* with a parent selector in it
HasParentReference(link) ==
  \/ link.head.kind = "null"
  \/ \E i \in 1..Len(link.head.elements) : link.head.elements[i].kind = "Parent"

\* the links put in the place of a link with a parent reference: the chain
\* of the parent, its last compound taking the other simple selectors of
\* the link; of the two combinators at the join the descendant one yields,
\* two others are an error
Splice(link, ps) ==
  LET pl == ps[Len(ps)]
      rest == IF link.head.kind = "null" THEN <<>>
              ELSE WithoutParent(link.head.elements)
  IN IF pl.combinator # "ANCESTOR_OF" /\ link.combinator # "ANCESTOR_OF"
     THEN <<[head |-> NullSelector, combinator |-> "error"]>>
     ELSE SubSeq(ps, 1, Len(ps) - 1)
            \o <<[head |-> CompoundOf(pl.head.elements \o rest),
                  combinator |-> IF link.combinator = "ANCESTOR_OF"
                                 THEN pl.combinator ELSE link.combinator]>>

\* Complex_Selector::parentize(parent), made to put the parent in the
\* place of the first parent reference only
RECURSIVE SpliceFirst(_, _, _)
SpliceFirst(cs, ps, i) ==
  IF i > Len(cs) THEN <<>>
  ELSE IF HasParentReference(cs[i])
  THEN Splice(cs[i], ps) \o SubSeq(cs, i + 1, Len(cs))
  ELSE <<cs[i]>> \o SpliceFirst(cs, ps, i + 1)

\* Complex_Selector::parentize(parent): the links of the result; every
\* link with a parent reference is spliced, and a chain with none is put
\* after the parent
RECURSIVE SpliceAll(_, _, _)
SpliceAll(cs, ps, i) ==
  IF i > Len(cs) THEN <<>>
  ELSE (IF HasParentReference(cs[i]) THEN Splice(cs[i], ps) ELSE <<cs[i]>>)
         \o SpliceAll(cs, ps, i + 1)

\* Complex_Selector::parentize(Complex_Selector* parent, ctx)
Complex_parentize(c, parent) ==
  LET cs == Links(c)
      ps == Links(parent)
      links == IF \E i \in 1..Len(cs) : HasParentReference(cs[i])
               THEN SpliceAll(cs, ps, 1)
               ELSE [ps EXCEPT ![Len(ps)].combinator = "ANCESTOR_OF"] \o cs
  IN IF \E i \in 1..Len(links) : links[i].combinator = "error"
     THEN [kind |-> "error"]
     ELSE FromLinks(links, 1)

\* Selector_List::parentize(Selector_List* parents, ctx): every
\* alternative with every parent; with no parent the list as it is, an
\* error when it refers to one
Selector_List_parentize(C, P) ==
  LET refers == \E i \in 1..Len(C.elements) :
                  \E j \in 1..Len(Links(C.elements[i])) :
                    HasParentReference(Links(C.elements[i])[j])
      n == Len(P.elements)
      alternatives ==
        [k \in 1..(Len(C.elements) * n) |->
           Complex_parentize(C.elements[((k - 1) \div n) + 1],
                             P.elements[((k - 1) % n) + 1])]
  IN IF n = 0
     THEN IF refers THEN [kind |-> "error"] ELSE C
     ELSE IF \E k \in DOMAIN alternatives : alternatives[k].kind = "error"
     THEN [kind |-> "error"]
     ELSE SelectorListOf(alternatives)

\* a selector list C and the list P of the enclosing ruleset, which has no
\* parent reference left
InitParentize ==
  LET One(h) == ComplexOf("ANCESTOR_OF", h, NullSelector)
      Two(h, c, t) == ComplexOf(c, h, One(t))
      a == CompoundOf(<<SimpleOf("a")>>)
      b == CompoundOf(<<SimpleOf("b")>>)
      c == CompoundOf(<<SimpleOf(".c")>>)
      amp == CompoundOf(<<SimpleOf("&")>>)
      hover == CompoundOf(<<SimpleOf("&"), SimpleOf(":hover")>>)
      inner == CompoundOf(<<Wrapped(<<":", "n", "o", "t">>,
                                    SelectorListOf(<<One(amp)>>))>>)
      children == {One(b), One(amp), One(hover), One(inner),
                   Two(amp, "ANCESTOR_OF", b), Two(b, "PARENT_OF", amp),
                   Two(amp, "ADJACENT_TO", amp), Two(amp, "PARENT_OF", hover),
                   ComplexOf("PARENT_OF", NullSelector, One(b))}
      parents == {One(a), One(c), Two(a, "PARENT_OF", c),
                  ComplexOf("PARENT_OF", a, NullSelector)}
      Lists(S) == {SelectorListOf(<<>>)}
                    \cup {SelectorListOf(<<x>>) : x \in S}
                    \cup {SelectorListOf(<<x, y>>) : x \in S, y \in S}
  IN /\ mappings = <<>>
     /\ current_position = Pos(0, 0, 0)
     /\ source_index = <<>>
     /\ last = NoCall
     /\ calls = 0
     /\ maps = <<>>
     /\ block = NoBlock
     /\ subject \in [child : Lists(children), parents : Lists(parents)]

\* child->parentize(parents, ctx)
Parentize ==
  /\ last' = [op |-> "parentize",
              result |-> Selector_List_parentize(subject.child, subject.parents)]
  /\ UNCHANGED <<mappings, current_position, source_index, calls, maps, block,
                 subject>>

SpecParentize == InitParentize /\ [][Parentize]_vars

----------------------------------------------------------------------------
(* C21: what parentize leaves                                               *)

\* a parent selector among the simple selectors of a chain, those inside a
\* wrapped selector not counted
RefersToParent(c) ==
  \E j \in 1..Len(Links(c)) :
    /\ Links(c)[j].head.kind # "null"
    /\ \E i \in 1..Len(Links(c)[j].head.elements) :
         Links(c)[j].head.elements[i].kind = "Parent"

----------------------------------------------------------------------------
(* Expression, List and Map: the flags (ast.hpp)                            *)

\* Expression::Expression, made to take is_expanded from e
Expression_new_expanded_from_e(d, e, i, ct) ==
  [kind |-> "Expression", is_delayed |-> d, is_expanded |-> e,
   is_interpolant |-> i, concrete_type |-> ct]

\* Expression::Expression(pstate, d, e, i, ct)
Expression_new(d, e, i, ct) ==
  [kind |-> "Expression", is_delayed |-> d, is_expanded |-> d,
   is_interpolant |-> i, concrete_type |-> ct]

\* List::List(pstate): Value(pstate) with the default arguments, then
\* concrete_type(LIST); Vectorized leaves hash_ as it finds it
List_new(h) ==
  [Expression_new(FALSE, FALSE, FALSE, "NONE") EXCEPT !.concrete_type = "LIST"]
    @@ [elements_ |-> <<>>, hash_ |-> h]

\* Map::Map(pstate): Value(pstate) with the default arguments, then
\* concrete_type(MAP)
Map_new(h) ==
  [Expression_new(FALSE, FALSE, FALSE, "NONE") EXCEPT !.concrete_type = "MAP"]
    @@ [hashed |-> NewMap(h)]

\* Vectorized::operator<< with List::adjust_after_pushing
List_push(l, element) ==
  IF element.type = "null" THEN l
  ELSE [l EXCEPT !.hash_ = Zero,
                 !.elements_ = Append(l.elements_, element),
                 !.is_expanded = FALSE]

\* Hashed::operator<< with Map::adjust_after_pushing
Map_push(m, k, v) ==
  [m EXCEPT !.hashed = HashedPush(m.hashed, k, v), !.is_expanded = FALSE]

\* nothing is constructed yet
InitExpression ==
  /\ mappings = <<>>
  /\ current_position = Pos(0, 0, 0)
  /\ source_index = <<>>
  /\ last = NoCall
  /\ calls = 0
  /\ maps = <<>>
  /\ block = NoBlock
  /\ subject = NoSubject

\* new Expression(pstate, d, e, i), new List(pstate), new Map(pstate)
Construct ==
  \E d \in BOOLEAN, e \in BOOLEAN, i \in BOOLEAN, h \in IndeterminateHashes,
     ct \in {"NONE", "LIST", "MAP"} :
    /\ calls < MaxCalls
    /\ calls' = calls + 1
    /\ subject' = CASE ct = "NONE" -> Expression_new(d, e, i, ct)
                     [] ct = "LIST" -> List_new(h)
                     [] ct = "MAP" -> Map_new(h)
    /\ last' = IF ct = "NONE" THEN [op |-> "new", d |-> d, e |-> e, i |-> i]
               ELSE [op |-> "new", d |-> FALSE, e |-> FALSE, i |-> FALSE]
    /\ UNCHANGED <<mappings, current_position, source_index, maps, block>>

\* expression->is_expanded(value), the setter ADD_PROPERTY defines
SetIsExpanded ==
  \E value \in BOOLEAN :
    /\ subject.kind = "Expression"
    /\ subject' = [subject EXCEPT !.is_expanded = value]
    /\ last' = [op |-> "is_expanded", value |-> value]
    /\ UNCHANGED <<mappings, current_position, source_index, calls, maps, block>>

\* *list << element, for an element or a null pointer
ListPush ==
  \E element \in {Boolean(TRUE), NullExpression} :
    /\ subject.kind = "Expression"
    /\ subject.concrete_type = "LIST"
    /\ calls < MaxCalls
    /\ calls' = calls + 1
    /\ subject' = List_push(subject, element)
    /\ last' = [op |-> "push", element |-> element, pre |-> subject]
    /\ UNCHANGED <<mappings, current_position, source_index, maps, block>>

\* *map << make_pair(key, value)
MapPushPair ==
  \E k \in Booleans, v \in Booleans :
    /\ subject.kind = "Expression"
    /\ subject.concrete_type = "MAP"
    /\ calls < MaxCalls
    /\ calls' = calls + 1
    /\ subject' = Map_push(subject, k, v)
    /\ last' = [op |-> "push", element |-> k, pre |-> subject]
    /\ UNCHANGED <<mappings, current_position, source_index, maps, block>>

SpecExpression ==
  InitExpression /\ [][Construct \/ SetIsExpanded \/ ListPush \/ MapPushPair]_vars

----------------------------------------------------------------------------
(* C23: the flags of a new Expression                                       *)

\* C23: an Expression constructed with (d, e, i) has is_delayed = d,
\* is_interpolant = i and is_expanded = d, whatever e is; and once an
\* element is appended to a List or a Map is_expanded is false.
C23_ExpandedFromDelayed ==
  /\ last.op = "new" =>
       /\ subject.is_delayed = last.d
       /\ subject.is_interpolant = last.i
       /\ subject.is_expanded = last.d
  /\ (last.op = "push" /\ last.element.type # "null") => ~subject.is_expanded

\* an Expression is constructed with d and e different
C23_Witness ==
  /\ last.op = "new"
  /\ last.d /\ ~last.e
  /\ subject.is_expanded

\* a pair is appended to a Map that was expanded
C23_WitnessPush ==
  /\ last.op = "push"
  /\ last.pre.concrete_type = "MAP" /\ last.pre.is_expanded
  /\ ~subject.is_expanded

----------------------------------------------------------------------------
(* Node::naiveTrim, loop by loop (node.cpp)                                 *)

\* string::npos, the largest size_t
npos == [k \in 1..SizeBits |-> 1]

\* --i on a size_t
Decrement(i) == Plus(i, npos)

\* a size_t that fits an index, as a number
RECURSIVE IndexOf(_)
IndexOf(i) == IF i = <<>> THEN 0 ELSE Head(i) + 2 * IndexOf(Tail(i))

\* size_t i = res.size() - 1, made to start at res.size()
CopyStartAtSize(res) == SizeT(Len(res))

\* size_t i = res.size() - 1
CopyStart(res) == Decrement(SizeT(Len(res)))

\* a collection is about to be trimmed
InitTrim ==
  /\ mappings = <<>>
  /\ current_position = Pos(0, 0, 0)
  /\ source_index = <<>>
  /\ last = NoCall
  /\ calls = 0
  /\ maps = <<>>
  /\ block = NoBlock
  /\ \E seqses \in UNION {[1..n -> NodeObjects] : n \in 0..MaxNodes} :
       subject = [pc |-> "scan", seqses |-> seqses, res |-> <<>>, i |-> Zero,
                  result |-> <<>>, visited |-> <<>>]

\* the first loop, and the start of the second
TrimScan ==
  /\ subject.pc = "scan"
  /\ LET res == NaiveTrimLoop(subject.seqses, Len(subject.seqses), {}, <<>>)
     IN subject' = [subject EXCEPT !.pc = "copy", !.res = res,
                                   !.i = CopyStart(res)]
  /\ last' = [op |-> "scan"]
  /\ UNCHANGED <<mappings, current_position, source_index, calls, maps, block>>

\* one turn of the second loop: result.collection()->push_back(*res[i]),
\* then --i; an index outside res ends the model's run
TrimCopy ==
  /\ subject.pc = "copy"
  /\ subject.i # npos
  /\ subject' =
       IF IndexOf(subject.i) >= Len(subject.res)
       THEN [subject EXCEPT !.pc = "out of range"]
       ELSE [subject EXCEPT
               !.result = Append(subject.result, subject.res[IndexOf(subject.i) + 1]),
               !.visited = Append(subject.visited, IndexOf(subject.i)),
               !.i = Decrement(subject.i)]
  /\ last' = [op |-> "copy"]
  /\ UNCHANGED <<mappings, current_position, source_index, calls, maps, block>>

\* i == string::npos: return result
TrimReturn ==
  /\ subject.pc = "copy"
  /\ subject.i = npos
  /\ subject' = [subject EXCEPT !.pc = "done"]
  /\ last' = [op |-> "return"]
  /\ UNCHANGED <<mappings, current_position, source_index, calls, maps, block>>

SpecTrim == InitTrim /\ [][TrimScan \/ TrimCopy \/ TrimReturn]_vars

----------------------------------------------------------------------------
(* C24: the copy loop of naiveTrim                                          *)

\* C24: naiveTrim comes to its end for every collection, the empty one
\* included: the index of its copy loop is within res as long as the loop
\* goes on, each turn takes it one down from res.size() - 1, and it is
\* string::npos, which ends the loop, exactly when res.size() turns are
\* done; so every index of res is visited once, none outside, and an empty
\* collection gives an empty one.
C24_TrimTerminates ==
  /\ subject.pc # "out of range"
  /\ subject.pc = "copy" =>
       /\ Len(subject.visited) <= Len(subject.res)
       /\ (subject.i = npos) <=> (Len(subject.visited) = Len(subject.res))
       /\ subject.i # npos =>
            IndexOf(subject.i) = Len(subject.res) - 1 - Len(subject.visited)
  /\ subject.pc = "done" =>
       /\ subject.visited = [k \in 1..Len(subject.res) |-> Len(subject.res) - k]
       /\ subject.result = naiveTrim(subject.seqses)
       /\ subject.seqses = <<>> => subject.result = <<>>

\* three nodes were copied
C24_Witness ==
  /\ subject.pc = "done"
  /\ subject.visited = <<2, 1, 0>>

\* the empty collection was trimmed
C24_WitnessEmpty ==
  /\ subject.pc = "done"
  /\ subject.seqses = <<>>
  /\ subject.visited = <<>>

----------------------------------------------------------------------------
(* C25: a prepend that fails                                                *)

\* C25: when prepend(buffer) throws, the mapping vector and
\* current_position of the receiving source map are what they were before
\* the call.
C25_FailedPrependChangesNothing ==
  (last.op = "prepend" /\ last.error # "none") =>
    /\ mappings = last.pre_mappings
    /\ current_position = last.pre_position

\* a prepend threw on a receiver whose mappings and position a shift by the
\* buffer would have moved
C25_Witness ==
  /\ last.op = "prepend" /\ last.error # "none"
  /\ PrependOffsetMappings(last.pre_mappings, last.out.buffer) # last.pre_mappings
  /\ PrependOffsetPosition(last.pre_position, last.out.buffer) # last.pre_position

----------------------------------------------------------------------------
(* C26: the order of the generated positions                                *)

\* generated positions compared by line, then column
GeneratedLeq(p, q) ==
  \/ p.line < q.line
  \/ p.line = q.line /\ p.column <= q.column

\* the mapping vector is non-decreasing in generated (line, column)
GeneratedSorted(ms) ==
  \A i \in 1..Len(ms) - 1 :
    GeneratedLeq(ms[i].generated_position, ms[i + 1].generated_position)

\* the output buffers an emitter builds: mappings in generated order and a
\* text as long as the buffer's source map says
WellFormedBuffers ==
  {out \in OutputBuffers :
     /\ GeneratedSorted(out.smap.mappings)
     /\ out.buffer = OffsetOf(out.smap.current_position)}

\* void SourceMap::prepend(const OutputBuffer& out) with a well-formed
\* buffer, when it returns
PrependWellFormed ==
  \E out \in WellFormedBuffers :
    /\ calls < MaxCalls
    /\ PrependCheck(out) = "none"
    /\ calls' = calls + 1
    /\ mappings' = PrependBufferMappings(mappings, out)
    /\ current_position' = PrependOffsetPosition(current_position, out.buffer)
    /\ last' = [op |-> "prepend", out |-> out, error |-> "none",
                pre_mappings |-> mappings, pre_position |-> current_position]
    /\ UNCHANGED source_index
    /\ UNCHANGED astvars

\* void SourceMap::prepend(const OutputBuffer& out) with a well-formed
\* buffer, when it throws
PrependWellFormedThrows ==
  \E out \in WellFormedBuffers :
    /\ calls < MaxCalls
    /\ PrependCheck(out) # "none"
    /\ calls' = calls + 1
    /\ last' = [op |-> "prepend", out |-> out, error |-> PrependCheck(out),
                pre_mappings |-> mappings, pre_position |-> current_position]
    /\ mappings' = PrependThrown(mappings, current_position, out).mappings
    /\ current_position' =
         PrependThrown(mappings, current_position, out).current_position
    /\ UNCHANGED source_index
    /\ UNCHANGED astvars

SpecSorted ==
  Init /\ [][AddOpenMapping \/ AddCloseMapping \/ AppendOffset
                \/ PrependWellFormed \/ PrependWellFormedThrows]_vars

\* C26: after any open, close, append(offset) and prepend(buffer) calls
\* with well-formed buffers, the mapping vector is non-decreasing in
\* generated (line, column) and no mapping lies beyond current_position.
C26_GeneratedSorted ==
  /\ GeneratedSorted(mappings)
  /\ \A i \in 1..Len(mappings) :
       GeneratedLeq(mappings[i].generated_position, current_position)

\* a buffer of two mapped lines went in front of mappings on the first and
\* on a later line of the receiver
C26_Witness ==
  /\ last.op = "prepend" /\ last.error = "none"
  /\ Len(last.out.smap.mappings) = 2
  /\ last.out.buffer = Off(1, 1)
  /\ \E i, j \in 1..Len(last.pre_mappings) :
       /\ last.pre_mappings[i].generated_position.line = 0
       /\ last.pre_mappings[j].generated_position.line > 0

----------------------------------------------------------------------------
(* Vectorized, List::hash and String_Schema::hash (ast.hpp:183-227,         *)
(* 804-812, 1345-1362)                                                      *)

\* std::hash<string>()(sep_string()): the library's hash of the separator,
\* one value per build
SepStringHashes == {SizeT(2), SizeT(3)}

\* String_Schema::String_Schema(pstate): the schema has a hash_ of its own,
\* which it sets to zero; Vectorized leaves its hash_ as it finds it
String_Schema_new(h) ==
  [Expression_new(FALSE, FALSE, FALSE, "NONE") EXCEPT !.concrete_type = "STRING"]
    @@ [elements_ |-> <<>>, hash_ |-> h, String_Schema_hash_ |-> Zero]

\* Vectorized::operator<< on a String_Schema: reset_hash() clears the
\* hash_ of Vectorized; adjust_after_pushing does nothing
String_Schema_push(v, element) ==
  IF element.type = "null" THEN v
  ELSE [v EXCEPT !.hash_ = Zero, !.elements_ = Append(v.elements_, element)]

\* the loops of List::hash and String_Schema::hash
RECURSIVE HashElements(_, _, _)
HashElements(elements, i, seed) ==
  IF i > Len(elements) THEN seed
  ELSE HashElements(elements, i + 1,
                    hash_combine(seed, Expression_hash(elements[i])))

\* List::hash: what the call returns and leaves in hash_
List_hash(l, sep) ==
  IF l.hash_ = Zero THEN HashElements(l.elements_, 1, sep) ELSE l.hash_

\* String_Schema::hash: what the call returns and leaves in the hash_ of
\* String_Schema
String_Schema_hash(v) ==
  IF v.String_Schema_hash_ = Zero
    THEN HashElements(v.elements_, 1, v.String_Schema_hash_)
    ELSE v.String_Schema_hash_

\* one List or one String_Schema is constructed
InitVectorized ==
  /\ mappings = <<>>
  /\ current_position = Pos(0, 0, 0)
  /\ source_index = <<>>
  /\ last = NoCall
  /\ calls = 0
  /\ maps = <<>>
  /\ block = NoBlock
  /\ \E h \in IndeterminateHashes, sep \in SepStringHashes :
       subject \in {[kind |-> "Vectorized", object |-> List_new(h), sep |-> sep],
                    [kind |-> "Vectorized", object |-> String_Schema_new(h),
                     sep |-> sep]}

\* *v << element, for an element or a null pointer
PushElement ==
  \E element \in Booleans \cup {NullExpression} :
    /\ calls < MaxCalls
    /\ calls' = calls + 1
    /\ subject' = [subject EXCEPT !.object =
                     IF @.concrete_type = "LIST" THEN List_push(@, element)
                     ELSE String_Schema_push(@, element)]
    /\ last' = [op |-> "push", element |-> element]
    /\ UNCHANGED <<mappings, current_position, source_index, maps, block>>

\* v->unshift(element)
UnshiftElement ==
  \E element \in Booleans :
    /\ calls < MaxCalls
    /\ calls' = calls + 1
    /\ subject' = [subject EXCEPT !.object = VectorizedUnshift(@, element)]
    /\ last' = [op |-> "unshift", element |-> element]
    /\ UNCHANGED <<mappings, current_position, source_index, maps, block>>

\* v->hash()
HashValue ==
  /\ subject' = [subject EXCEPT !.object =
                   IF subject.object.concrete_type = "LIST"
                     THEN [subject.object EXCEPT
                             !.hash_ = List_hash(subject.object, subject.sep)]
                     ELSE [subject.object EXCEPT
                             !.String_Schema_hash_ =
                               String_Schema_hash(subject.object)]]
  /\ last' = [op |-> "hash",
              result |-> IF subject.object.concrete_type = "LIST"
                           THEN List_hash(subject.object, subject.sep)
                           ELSE String_Schema_hash(subject.object)]
  /\ UNCHANGED <<mappings, current_position, source_index, calls, maps, block>>

SpecVectorized ==
  InitVectorized /\ [][PushElement \/ UnshiftElement \/ HashValue]_vars

\* the hash of the elements the value holds now
FreshHash(v, sep) ==
  HashElements(v.elements_, 1, IF v.concrete_type = "LIST" THEN sep ELSE Zero)

\* C27: whatever hash() calls and insertions came before, hash() returns
\* the hash computed from the current elements.
C27_HashCoherent ==
  last.op = "hash" => last.result = FreshHash(subject.object, subject.sep)

\* the same for the String_Schema alone, whose hash() reads no
\* uninitialized field
SchemaHashCoherent ==
  (last.op = "hash" /\ subject.object.concrete_type = "STRING")
    => last.result = FreshHash(subject.object, subject.sep)

----------------------------------------------------------------------------
(* Hashed::operator+= (ast.hpp:268-281)                                     *)

\* the loop of lines 276-278: *this << make_pair(key, h->at(key)) for the
\* keys of h in their order
RECURSIVE HashedPushAll(_, _, _)
HashedPushAll(m, h, i) ==
  IF i > Len(h.list_) THEN m
  ELSE HashedPushAll(HashedPush(m, h.list_[i], at(h, h.list_[i])), h, i + 1)

\* HashedMerge with the keys of h put behind the key list in one piece
HashedMergeAppendingKeys(m, h) ==
  IF Len(m.list_) = 0
    THEN [m EXCEPT !.elements_ = h.elements_, !.list_ = h.list_,
                   !.inserted = h.inserted]
    ELSE [HashedPushAll(m, h, 1) EXCEPT !.list_ = m.list_ \o h.list_,
                                        !.duplicate_key_ = NullExpression]

\* Hashed::operator+=
HashedMerge(m, h) ==
  IF Len(m.list_) = 0
    THEN [m EXCEPT !.elements_ = h.elements_, !.list_ = h.list_,
                   !.inserted = h.inserted]
    ELSE [HashedPushAll(m, h, 1) EXCEPT !.duplicate_key_ = NullExpression]

\* *maps[i] += maps[j]
MapMerge ==
  \E i \in DOMAIN maps, j \in DOMAIN maps :
    /\ calls < MaxCalls
    /\ calls' = calls + 1
    /\ maps' = [maps EXCEPT ![i] = HashedMerge(maps[i], maps[j])]
    /\ last' = [op |-> "merge", into |-> i, from |-> j, pre |-> maps]
    /\ UNCHANGED <<mappings, current_position, source_index, block, subject>>

\* *maps[i] << make_pair(key, value), for a key of MapKeys
MapInsert ==
  \E i \in DOMAIN maps, k \in MapKeys :
    /\ calls < MaxCalls
    /\ calls' = calls + 1
    /\ maps' = [maps EXCEPT ![i] = HashedPush(maps[i], k, Boolean(TRUE))]
    /\ last' = [op |-> "insert", into |-> i, key |-> k]
    /\ UNCHANGED <<mappings, current_position, source_index, block, subject>>

SpecMerge == InitMapPair /\ [][MapInsert \/ MapMerge]_vars

\* the keys of the key-to-value table
TableKeys(m) == {p[1] : p \in m.elements_}

\* C28: after any insertions and merges, the key list holds no key twice
\* and holds exactly the keys of the table, so length() is the number of
\* entries and every listed key has a value.
C28_HashedStructure ==
  \A n \in DOMAIN maps :
    LET m == maps[n]
    IN /\ \A a, b \in 1..Len(m.list_) :
            a # b => ~equal_to(m.list_[a], m.list_[b])
       /\ {m.list_[a] : a \in 1..Len(m.list_)} = TableKeys(m)
       /\ Len(m.list_) = Cardinality(m.elements_)
       /\ \A a \in 1..Len(m.list_) :
            has(m, m.list_[a]) /\ at(m, m.list_[a]) # NullExpression

\* a map with keys has just taken in a map that holds one of its keys and
\* a key it did not have
C28_Witness ==
  /\ last.op = "merge"
  /\ last.into # last.from
  /\ maps = [last.pre EXCEPT ![last.into] =
               HashedMerge(last.pre[last.into], last.pre[last.from])]
  /\ Len(last.pre[last.into].list_) > 0
  /\ \E a, b \in 1..Len(last.pre[last.from].list_) :
       /\ has(last.pre[last.into], last.pre[last.from].list_[a])
       /\ ~has(last.pre[last.into], last.pre[last.from].list_[b])

----------------------------------------------------------------------------
(* complexSelectorToNode, nodeToComplexSelector, nodesEqual (node.cpp)      *)
(* A Complex_Selector chain is the sequence of its links, first link first; *)
(* the null pointer is the empty sequence.                                  *)

\* one Complex_Selector of a chain
Link(head, combinator, has_line_feed) ==
  [head |-> head, combinator |-> combinator, has_line_feed |-> has_line_feed]

\* a Compound_Selector the parser built: has_parent_reference is set when
\* one of its simple selectors is the parent reference
HeadOf(simples) ==
  CompoundOf(simples)
    @@ [has_parent_reference |-> \E i \in 1..Len(simples) : simples[i].kind = "Parent"]

\* the head nodeToComplexSelector builds, lines 274-276: the parent
\* reference goes into elements() directly, no flag is set
fakeHead ==
  [kind |-> "Compound", elements |-> <<SimpleOf("&")>>, has_reference |-> FALSE,
   has_placeholder |-> FALSE, has_parent_reference |-> FALSE]

\* Compound_Selector::has_parent_ref (declared at ast.hpp:1992): either the
\* flag of the compound or a search of its simple selectors
Compound_has_parent_ref(h, reading) ==
  IF reading = "flag" THEN h.has_parent_reference
  ELSE \E i \in 1..Len(h.elements) : h.elements[i].kind = "Parent"

\* Compound_Selector::is_empty_reference
is_empty_reference(h) ==
  Len(h.elements) = 1 /\ h.elements[1].kind = "Parent"

\* Node::createNil, createCombinator, createCollection
createNil ==
  [type |-> "NIL", combinator |-> "ANCESTOR_OF", selector |-> <<>>,
   collection |-> <<>>, got_line_feed |-> FALSE]

createCombinator(combinator) ==
  [type |-> "COMBINATOR", combinator |-> combinator, selector |-> <<>>,
   collection |-> <<>>, got_line_feed |-> FALSE]

createCollection(values) ==
  [type |-> "COLLECTION", combinator |-> "ANCESTOR_OF", selector |-> <<>>,
   collection |-> values, got_line_feed |-> FALSE]

\* Node::createSelector: a clone of the link without tail and combinator
createSelector(link) ==
  [type |-> "SELECTOR", combinator |-> "ANCESTOR_OF",
   selector |-> <<Link(link.head, "ANCESTOR_OF", link.has_line_feed)>>,
   collection |-> <<>>, got_line_feed |-> link.has_line_feed]

\* the while loop of complexSelectorToNode, lines 194-219
RECURSIVE ToNodeLoop(_, _, _, _)
ToNodeLoop(chain, i, has_lf, collection) ==
  IF i > Len(chain) THEN collection
  ELSE LET link == chain[i]
           skipped == link.head.kind = "null" \/ is_empty_reference(link.head)
           c1 == IF skipped THEN collection
                 ELSE Append(collection,
                        [createSelector(link) EXCEPT
                           !.got_line_feed = link.has_line_feed \/ has_lf])
           lf1 == IF skipped THEN has_lf ELSE FALSE
           c2 == IF link.combinator # "ANCESTOR_OF"
                   THEN Append(c1, [createCombinator(link.combinator) EXCEPT
                                      !.got_line_feed = lf1])
                   ELSE c1
           lf2 == IF link.combinator # "ANCESTOR_OF" THEN FALSE ELSE lf1
       IN ToNodeLoop(chain, i + 1, lf2, c2)

\* complexSelectorToNode: the node it returns and the chain it was handed,
\* as the call leaves it (lines 188-192 write to the tail)
complexSelectorToNode(chain, reading) ==
  IF chain = <<>> THEN [node |-> createNil, argument |-> chain]
  ELSE LET unwrap == chain[1].head.kind # "null"
                       /\ Compound_has_parent_ref(chain[1].head, reading)
           after == IF unwrap /\ Len(chain) > 1
                      THEN [chain EXCEPT ![2].has_line_feed = chain[1].has_line_feed]
                      ELSE chain
       IN [node |-> [createCollection(
                       ToNodeLoop(after, IF unwrap THEN 2 ELSE 1,
                                  chain[1].has_line_feed, <<>>))
                       EXCEPT !.got_line_feed = chain[1].has_line_feed],
           argument |-> after]

\* FromNodeLoop without the link lines 260-267 add between two combinators
RECURSIVE FromNodeLoopOverwriting(_, _, _)
FromNodeLoopOverwriting(children, i, chain) ==
  IF i > Len(children) THEN [thrown |-> FALSE, chain |-> chain]
  ELSE LET child == children[i]
           n == Len(chain)
       IN CASE child.type = "SELECTOR" ->
                 FromNodeLoopOverwriting(children, i + 1,
                                         chain \o child.selector)
            [] child.type = "COMBINATOR" ->
                 FromNodeLoopOverwriting(children, i + 1,
                   [chain EXCEPT
                      ![n].combinator = child.combinator,
                      ![n].has_line_feed = @ \/ child.got_line_feed])
            [] OTHER -> [thrown |-> TRUE, chain |-> <<>>]

\* the for loop of nodeToComplexSelector, lines 247-271; pCurrent is the
\* last link of the chain built so far
RECURSIVE FromNodeLoop(_, _, _)
FromNodeLoop(children, i, chain) ==
  IF i > Len(children) THEN [thrown |-> FALSE, chain |-> chain]
  ELSE LET child == children[i]
           n == Len(chain)
           set == [chain EXCEPT
                     ![n].combinator = child.combinator,
                     ![n].has_line_feed = @ \/ child.got_line_feed]
       IN CASE child.type = "SELECTOR" ->
                 FromNodeLoop(children, i + 1, chain \o child.selector)
            [] child.type = "COMBINATOR" ->
                 FromNodeLoop(children, i + 1,
                   IF i + 1 <= Len(children) /\ children[i + 1].type = "COMBINATOR"
                     THEN Append(set, Link(NullSelector, "ANCESTOR_OF",
                                           children[i + 1].got_line_feed))
                     ELSE set)
            [] OTHER -> [thrown |-> TRUE, chain |-> <<>>]

\* nodeToComplexSelector: whether it throws, and the chain it returns
nodeToComplexSelector(toConvert) ==
  IF toConvert.type = "NIL" THEN [thrown |-> FALSE, chain |-> <<>>]
  ELSE IF toConvert.type # "COLLECTION" THEN [thrown |-> TRUE, chain |-> <<>>]
  ELSE LET built == FromNodeLoop(toConvert.collection, 1,
                                 <<Link(NullSelector, "ANCESTOR_OF", FALSE)>>)
       IN IF built.thrown THEN built
          ELSE [thrown |-> FALSE,
                chain |-> [built.chain EXCEPT
                             ![1].has_line_feed = @ \/ toConvert.got_line_feed,
                             ![1].head = fakeHead]]

\* selectors_equal(one, two, true) on the selectors of two selector nodes:
\* neither is less than the other, operator< comparing what the two would
\* print (ast.hpp:2225-2232); a head prints its simple selectors
selectors_equal(one, two) ==
  /\ one[1].head = two[1].head
  /\ one[1].combinator = two[1].combinator

\* nodesEqual(lhs, rhs, true)
RECURSIVE nodesEqual(_, _)
nodesEqual(lhs, rhs) ==
  IF lhs.type # rhs.type THEN FALSE
  ELSE CASE lhs.type = "COMBINATOR" -> lhs.combinator = rhs.combinator
         [] lhs.type = "NIL" -> TRUE
         [] lhs.type = "SELECTOR" -> selectors_equal(lhs.selector, rhs.selector)
         [] lhs.type = "COLLECTION" ->
              /\ Len(lhs.collection) = Len(rhs.collection)
              /\ \A i \in 1..Len(lhs.collection) :
                   nodesEqual(lhs.collection[i], rhs.collection[i])

\* the children of the collections handed to nodeToComplexSelector
ChildNodes ==
  LET sel(simples, lf) == createSelector(Link(HeadOf(simples), "ANCESTOR_OF", lf))
      comb(c, lf) == [createCombinator(c) EXCEPT !.got_line_feed = lf]
  IN {sel(<<SimpleOf("a")>>, FALSE), sel(<<SimpleOf("a")>>, TRUE),
      sel(<<SimpleOf("b")>>, FALSE), sel(<<SimpleOf("&")>>, FALSE),
      createSelector(Link(NullSelector, "ANCESTOR_OF", FALSE)),
      comb("PARENT_OF", FALSE), comb("PARENT_OF", TRUE),
      comb("ADJACENT_TO", FALSE), comb("ANCESTOR_OF", FALSE),
      createNil, createCollection(<<>>)}

\* the nodes handed to nodeToComplexSelector: collections of up to
\* MaxNodes children, with and without line feed, nil, and a lone selector
ConvertNodes ==
  {[createCollection(children) EXCEPT !.got_line_feed = lf] :
     children \in UNION {[1..n -> ChildNodes] : n \in 0..MaxNodes},
     lf \in BOOLEAN}
    \cup {createNil, createSelector(Link(HeadOf(<<SimpleOf("a")>>), "ANCESTOR_OF", FALSE))}

\* the chains the parser hands to complexSelectorToNode: "& > a", with a
\* line feed on the first link or on the second, "a b" and the null pointer
ConvertChains ==
  {<<Link(HeadOf(<<SimpleOf("&")>>), "PARENT_OF", lf1),
     Link(HeadOf(<<SimpleOf("a")>>), "ANCESTOR_OF", lf2)>> :
     lf1 \in BOOLEAN, lf2 \in BOOLEAN}
    \cup {<<Link(HeadOf(<<SimpleOf("a")>>), "ANCESTOR_OF", TRUE),
            Link(HeadOf(<<SimpleOf("b")>>), "ANCESTOR_OF", FALSE)>>,
          <<>>}

\* a node or a chain is at hand; reading is the body has_parent_ref has
InitConvert ==
  /\ mappings = <<>>
  /\ current_position = Pos(0, 0, 0)
  /\ source_index = <<>>
  /\ last = NoCall
  /\ calls = 0
  /\ maps = <<>>
  /\ block = NoBlock
  /\ \E reading \in {"flag", "elements"} :
       \/ \E n \in ConvertNodes :
            subject = [kind |-> "Convert", reading |-> reading, pc |-> "node",
                       node |-> n, chain |-> <<>>, thrown |-> FALSE]
       \/ \E ch \in ConvertChains :
            subject = [kind |-> "Convert", reading |-> reading, pc |-> "chain",
                       node |-> createNil, chain |-> ch, thrown |-> FALSE]

\* chain = nodeToComplexSelector(node, ctx)
NodeToComplexSelector ==
  /\ subject.pc = "node"
  /\ LET r == nodeToComplexSelector(subject.node)
     IN /\ subject' = [subject EXCEPT !.pc = IF r.thrown THEN "thrown" ELSE "chain",
                                      !.chain = r.chain, !.thrown = r.thrown]
        /\ last' = [op |-> "nodeToComplexSelector", node |-> subject.node]
  /\ UNCHANGED <<mappings, current_position, source_index, calls, maps, block>>

\* node = complexSelectorToNode(chain, ctx)
ComplexSelectorToNode ==
  /\ subject.pc = "chain"
  /\ LET r == complexSelectorToNode(subject.chain, subject.reading)
     IN /\ subject' = [subject EXCEPT !.pc = "done", !.node = r.node,
                                      !.chain = r.argument]
        /\ last' = [op |-> "complexSelectorToNode", chain |-> subject.chain,
                    node |-> IF last.op = "nodeToComplexSelector"
                               THEN last.node ELSE createNil,
                    round_trip |-> last.op = "nodeToComplexSelector"]
  /\ UNCHANGED <<mappings, current_position, source_index, calls, maps, block>>

SpecConvert == InitConvert /\ [][NodeToComplexSelector \/ ComplexSelectorToNode]_vars

----------------------------------------------------------------------------
(* C29: from a node to a selector and back                                  *)

\* a collection of selector and combinator nodes that starts with a selector
SelectorFirst(n) ==
  /\ n.type = "COLLECTION"
  /\ Len(n.collection) > 0
  /\ n.collection[1].type = "SELECTOR"
  /\ \A i \in 1..Len(n.collection) :
       n.collection[i].type \in {"SELECTOR", "COMBINATOR"}

\* a node nodeToComplexSelector has to refuse
Unconvertible(n) ==
  \/ n.type \notin {"NIL", "COLLECTION"}
  \/ /\ n.type = "COLLECTION"
     /\ \E i \in 1..Len(n.collection) :
          n.collection[i].type \in {"COLLECTION", "NIL"}

\* nil becomes the null selector and nil again; what cannot be converted
\* makes nodeToComplexSelector throw
NilAndErrors ==
  /\ (last.op = "nodeToComplexSelector" /\ last.node.type = "NIL")
       => (~subject.thrown /\ subject.chain = <<>>)
  /\ (last.op = "complexSelectorToNode" /\ last.chain = <<>>)
       => subject.node.type = "NIL"
  /\ (last.op = "nodeToComplexSelector" /\ Unconvertible(last.node))
       => subject.thrown

\* every combinator node holds a combinator other than the descendant one,
\* and every selector node a head that is not the lone parent reference
Representable(n) ==
  \A i \in 1..Len(n.collection) :
    LET child == n.collection[i]
    IN /\ child.type = "COMBINATOR" => child.combinator # "ANCESTOR_OF"
       /\ child.type = "SELECTOR" =>
            /\ child.selector[1].head.kind # "null"
            /\ ~is_empty_reference(child.selector[1].head)

\* C29: a collection of selector and combinator nodes that starts with a
\* selector comes back equal, by nodesEqual, from nodeToComplexSelector and
\* complexSelectorToNode; nil becomes the null selector and nil again;
\* nodeToComplexSelector throws for what is neither nil nor a collection
\* and for a collection with a nested collection or nil.
C29_RoundTrip ==
  /\ (last.op = "complexSelectorToNode" /\ last.round_trip
        /\ SelectorFirst(last.node))
       => nodesEqual(subject.node, last.node)
  /\ NilAndErrors

\* C29, for collections whose combinator nodes are not descendant
\* combinators and whose selector nodes have a head other than the lone
\* parent reference
C29_RoundTripRepresentable ==
  /\ (last.op = "complexSelectorToNode" /\ last.round_trip
        /\ SelectorFirst(last.node) /\ Representable(last.node))
       => nodesEqual(subject.node, last.node)
  /\ NilAndErrors

\* a selector followed by two combinators has made the round trip
C29_Witness ==
  /\ last.op = "complexSelectorToNode" /\ last.round_trip
  /\ SelectorFirst(last.node) /\ Representable(last.node)
  /\ Len(last.node.collection) = 3
  /\ last.node.collection[2].type = "COMBINATOR"
  /\ last.node.collection[3].type = "COMBINATOR"
  /\ last.node.collection[2].combinator # last.node.collection[3].combinator

----------------------------------------------------------------------------
(* C30: what complexSelectorToNode does to its argument                     *)

\* C30: after complexSelectorToNode every link of the chain it was handed
\* has the head, combinator, tail and has_line_feed it had before.
C30_ArgumentUntouched ==
  last.op = "complexSelectorToNode" => subject.chain = last.chain
====
